---- MODULE Spec2Model ----
(***************************************************************************)
(* Model of the exporter-agent orchestration core                          *)
(* (src/orchestration/orchestrator.py and the agents it drives).           *)
(*                                                                         *)
(* Python dicts are insertion ordered; a dict is modelled as a sequence of *)
(* [k, v] records with unique keys.  Text (file contents, LLM responses)   *)
(* is a sequence of string tokens.                                         *)
(***************************************************************************)
EXTENDS Integers, Sequences, FiniteSets, TLC

(***************************************************************************)
(* Bounds and configuration                                                *)
(***************************************************************************)
\* settings["app_settings"]["max_retries"]: budget of the Fix Loop
MaxRetriesSetting == 2

\* default of _retry_research(max_retries=3) / local max_retries = 3
ResearchMaxRetries == 3

\* settings["app_settings"]["module_name"]
MainPath == "cmd/exporter/main.go"

\* the absence of an exception
NoError == [exc |-> "None", rule |-> "", arg |-> << >>]

Raise(class) == [exc |-> class, rule |-> "", arg |-> << >>]

\* what the LLM boundary raises when a call fails after its own retries
LLMFailure == "LLMFailure"

\* a dict key that is not present (metric.get(key) returns None)
Absent == "<absent>"

(***************************************************************************)
(* Ordered dictionaries                                                    *)
(***************************************************************************)
EmptyDict == << >>

DictKeys(d) == {d[i].k : i \in DOMAIN d}

DictGet(d, key) == d[CHOOSE i \in DOMAIN d : d[i].k = key].v

DictSet(d, key, val) ==
    IF key \in DictKeys(d)
    THEN [i \in DOMAIN d |-> IF d[i].k = key THEN [k |-> key, v |-> val] ELSE d[i]]
    ELSE Append(d, [k |-> key, v |-> val])

RECURSIVE DictUpdate(_, _)
DictUpdate(d, e) ==
    IF e = << >> THEN d
    ELSE DictUpdate(DictSet(d, Head(e).k, Head(e).v), Tail(e))

\* dict(d): a new dict with the same items in the same order
DictCopy(d) == DictUpdate(EmptyDict, d)

\* Python's == on dicts: same keys, same values, order ignored
DictEq(d, e) ==
    /\ DictKeys(d) = DictKeys(e)
    /\ \A key \in DictKeys(d) : DictGet(d, key) = DictGet(e, key)

(***************************************************************************)
(* Metric schema validation (Orchestrator.validate_metrics)                *)
(***************************************************************************)
Letters == {"a", "_", ":"}
Digits == {"1"}
NameChars == Letters \cup Digits

\* re.match(r'^[a-zA-Z_:][a-zA-Z0-9_:]*$', name): `$` also matches just
\* before a single trailing newline.
NameMatches(name) ==
    LET n == IF Len(name) > 0 /\ name[Len(name)] = "\n" THEN Len(name) - 1 ELSE Len(name)
    IN /\ n >= 1
       /\ name[1] \in Letters
       /\ \A i \in 2..n : name[i] \in NameChars

allowed_types == {"gauge", "counter", "histogram"}

\* the checks of one metric, in the order the code makes them; the
\* ValueError carries the rule and the value its message embeds
MetricError(metric) ==
    IF ~NameMatches(metric.name)
    THEN [exc |-> "ValueError", rule |-> "name", arg |-> metric.name]
    ELSE IF metric.description \in {Absent, ""}
    THEN [exc |-> "ValueError", rule |-> "description", arg |-> << >>]
    ELSE IF metric.type \notin allowed_types
    THEN [exc |-> "ValueError", rule |-> "type", arg |-> <<metric.type>>]
    ELSE NoError

\* faulty variant: the loop returns after checking the first metric
ValidateFirstMetricOnly(metrics) ==
    IF metrics = << >> THEN NoError ELSE MetricError(Head(metrics))

\* raises on the first offending metric, in sequence order
RECURSIVE validate_metrics(_)
validate_metrics(metrics) ==
    IF metrics = << >> THEN NoError
    ELSE IF MetricError(Head(metrics)) # NoError THEN MetricError(Head(metrics))
    ELSE validate_metrics(Tail(metrics))

(***************************************************************************)
(* Research agent (agents/research_agent.py)                               *)
(***************************************************************************)
Metric(n, d, t, st) == [name |-> n, description |-> d, type |-> t, status |-> st]

mNew       == Metric(<<"a", "_", "1">>, "d", "gauge", "new")
mExisting  == Metric(<<":", "a">>, "d", "counter", "existing")
mPlain     == Metric(<<"a", "\n">>, "d", "histogram", Absent)
mBadFirst  == Metric(<<"1", "a">>, "d", "gauge", "new")
mNoDesc    == Metric(<<"a">>, Absent, "gauge", "new")
mBadType   == Metric(<<"a">>, "d", "summary", "new")

\* the hard-coded fallbacks
PlaceholderFresh == Metric(<<"a", "_", "a">>, "d", "gauge", Absent)
PlaceholderExtension == Metric(<<"a", "_", "_">>, "d", "gauge", "new")

\* LLM response texts, by what json.loads and the pydantic model make of
\* them: "object" is a JSON object (metrics: the value of its "metrics" key,
\* [] when absent), "not_json" raises JSONDecodeError, "non_object" is JSON
\* that is no object (no .get), "bad_schema" is an object whose metrics are
\* not a list of string-to-string mappings.
ObjectResponse(ms) == [kind |-> "object", metrics |-> ms]

ResearchResponses ==
    { ObjectResponse(<<mNew, mExisting>>),
      ObjectResponse(<<mExisting>>),
      ObjectResponse(<<mPlain>>),
      ObjectResponse(<< >>),
      ObjectResponse(<<mNew, mBadFirst>>),
      ObjectResponse(<<mNoDesc, mBadType>>),
      ObjectResponse(<<mExisting, mBadType>>),
      [kind |-> "not_json", metrics |-> << >>],
      [kind |-> "non_object", metrics |-> << >>],
      [kind |-> "bad_schema", metrics |-> << >>] }

ResearchResult(ms, code) == [metrics |-> ms, existing_code |-> code]

NoResearch == ResearchResult(<< >>, EmptyDict)

Returned(val) == [exc |-> NoError, ret |-> val]
Raised(err) == [exc |-> err, ret |-> NoResearch]

\* faulty variant: an object without metrics gets the placeholder metric
research_system_filling_empty(resp) ==
    CASE resp.kind = "object" ->
           Returned(ResearchResult(IF resp.metrics = << >> THEN <<PlaceholderFresh>>
                                   ELSE resp.metrics, EmptyDict))
      [] resp.kind = "not_json" -> Returned(ResearchResult(<<PlaceholderFresh>>, EmptyDict))
      [] resp.kind = "non_object" -> Raised(Raise("AttributeError"))
      [] resp.kind = "bad_schema" -> Raised(Raise("ValueError"))

\* ResearchAgent.research_system, after the LLM call returned resp
research_system(resp) ==
    CASE resp.kind = "object" -> Returned(ResearchResult(resp.metrics, EmptyDict))
      [] resp.kind = "not_json" -> Returned(ResearchResult(<<PlaceholderFresh>>, EmptyDict))
      [] resp.kind = "non_object" -> Raised(Raise("AttributeError"))
      [] resp.kind = "bad_schema" -> Raised(Raise("ValueError"))

\* ResearchAgent.research_with_existing_code, after the LLM call returned resp
research_with_existing_code(resp, code) ==
    CASE resp.kind = "object" -> Returned(ResearchResult(resp.metrics, code))
      [] resp.kind = "not_json" -> Returned(ResearchResult(<<PlaceholderExtension>>, code))
      [] resp.kind = "non_object" -> Raised(Raise("AttributeError"))
      [] resp.kind = "bad_schema" -> Raised(Raise("ValueError"))

(***************************************************************************)
(* Coding agent (agents/coding_agent.py)                                   *)
(*                                                                         *)
(* Text tokens: "<fence>" a code fence, "go" the language tag, " " and    *)
(* "\n" whitespace, "filepath=" the annotation keyword, "// " a comment    *)
(* opener, a path, "main" for text holding the entry-point marker          *)
(* func main( , "test" for text holding the test marker TestMetrics, and   *)
(* other code ("x", "y", "old").                                           *)
(***************************************************************************)
Paths == {"exporter.go", "exporter_test.go", MainPath, "./exporter.go",
          "collectors/a.go", "collectors/b.go", "collectors/a_test.go"}

Whitespace == {" ", "\n"}

\* index of the first token at or after i that is not whitespace
RECURSIVE SkipSpace(_, _)
SkipSpace(s, i) ==
    IF i <= Len(s) /\ s[i] \in Whitespace THEN SkipSpace(s, i + 1) ELSE i

HasNewline(s, i, j) == \E n \in i..(j - 1) : s[n] = "\n"

Fence == "<fence>"

\* index of the first fence at or after i, or 0
RECURSIVE FindFence(_, _)
FindFence(s, i) ==
    IF i > Len(s) THEN 0
    ELSE IF s[i] = Fence THEN i
    ELSE FindFence(s, i + 1)

NoMatch == [ok |-> FALSE, path |-> "", body |-> << >>, next |-> 0]

\* the body of a fenced block starting at b: everything up to the next fence
FenceBody(s, path, b) ==
    LET c == FindFence(s, b)
    IN IF c = 0 THEN NoMatch
       ELSE [ok |-> TRUE, path |-> path, body |-> SubSeq(s, b, c - 1), next |-> c + 1]

\* one match of the fenced-block pattern
\*   <fence>(?:go)?\s*(?:filepath=([\w\/\.]+))?\s*\n(.*?)<fence>   at i
MatchFence(s, i) ==
    IF s[i] # Fence THEN NoMatch
    ELSE LET j == IF i + 1 <= Len(s) /\ s[i + 1] = "go" THEN i + 2 ELSE i + 1
             w == SkipSpace(s, j)
             annotated == /\ w + 1 <= Len(s)
                          /\ s[w] = "filepath="
                          /\ s[w + 1] \in Paths
             w2 == SkipSpace(s, w + 2)
         IN IF annotated /\ HasNewline(s, w + 2, w2) /\ FenceBody(s, s[w + 1], w2).ok
            THEN FenceBody(s, s[w + 1], w2)
            ELSE IF HasNewline(s, j, w)
            THEN FenceBody(s, "", w)
            ELSE NoMatch

\* re.findall of the fenced-block pattern: the non-overlapping matches,
\* left to right
RECURSIVE FindAllFences(_, _)
FindAllFences(s, i) ==
    IF i > Len(s) THEN << >>
    ELSE IF MatchFence(s, i).ok
    THEN <<MatchFence(s, i)>> \o FindAllFences(s, MatchFence(s, i).next)
    ELSE FindAllFences(s, i + 1)

IsPathComment(s, i) == s[i] = "// " /\ i + 1 <= Len(s) /\ s[i + 1] \in Paths

\* index of the first path comment at or after i, or 0
RECURSIVE FindPathComment(_, _)
FindPathComment(s, i) ==
    IF i > Len(s) THEN 0
    ELSE IF IsPathComment(s, i) THEN i
    ELSE FindPathComment(s, i + 1)

\* one match of  // ([\w\/\.]+)\n(.*?)(?=// [\w\/\.]+|\Z)  at i
MatchComment(s, i) ==
    IF IsPathComment(s, i) /\ i + 2 <= Len(s) /\ s[i + 2] = "\n"
    THEN LET c == FindPathComment(s, i + 3)
             e == IF c = 0 THEN Len(s) + 1 ELSE c
         IN [ok |-> TRUE, path |-> s[i + 1], body |-> SubSeq(s, i + 3, e - 1),
             next |-> e]
    ELSE NoMatch

\* re.findall of the path-comment pattern
RECURSIVE FindAllComments(_, _)
FindAllComments(s, i) ==
    IF i > Len(s) THEN << >>
    ELSE IF MatchComment(s, i).ok
    THEN <<MatchComment(s, i)>> \o FindAllComments(s, MatchComment(s, i).next)
    ELSE FindAllComments(s, i + 1)

\* str.strip()
RECURSIVE Strip(_)
Strip(s) ==
    IF s = << >> THEN s
    ELSE IF Head(s) \in Whitespace THEN Strip(Tail(s))
    ELSE IF s[Len(s)] \in Whitespace THEN Strip(SubSeq(s, 1, Len(s) - 1))
    ELSE s

Contains(s, tok) == \E i \in DOMAIN s : s[i] = tok

\* faulty variant: the test marker is looked for first
GuessPathTestFirst(body) ==
    IF Contains(body, "test") THEN "exporter_test.go"
    ELSE IF Contains(body, "main") THEN MainPath
    ELSE "exporter.go"

\* the path a block without annotation is routed to
GuessPath(body) ==
    IF Contains(body, "main") THEN MainPath
    ELSE IF Contains(body, "test") THEN "exporter_test.go"
    ELSE "exporter.go"

RECURSIVE CollectBlocks(_, _, _)
CollectBlocks(files, blocks, guess) ==
    IF blocks = << >> THEN files
    ELSE LET b == Head(blocks)
             path == IF b.path = "" /\ guess THEN GuessPath(b.body) ELSE b.path
         IN CollectBlocks(DictSet(files, path, Strip(b.body)), Tail(blocks), guess)

\* CodingAgent._parse_coding_response
parse_coding_response(content) ==
    LET files == CollectBlocks(EmptyDict, FindAllFences(content, 1), TRUE)
    IN IF files # EmptyDict THEN files
       ELSE CollectBlocks(EmptyDict, FindAllComments(content, 1), FALSE)

\* LLM responses to the coding prompts
CodingResponses ==
    { <<Fence, "go", " ", "filepath=", "collectors/a.go", "\n", "x", "\n", Fence, "\n",
        Fence, "filepath=", "collectors/a_test.go", "\n", "test", Fence>>,
      <<Fence, "\n", "main", "\n", Fence>>,
      <<"// ", "exporter.go", "\n", "y", " ">>,
      <<Fence, "filepath=", "./exporter.go", "\n", "old", Fence>>,
      <<"x", "y">> }

\* faulty variant: every metric not marked existing counts as new
RECURSIVE NotExistingMetrics(_)
NotExistingMetrics(metrics) ==
    IF metrics = << >> THEN << >>
    ELSE IF Head(metrics).status # "existing"
    THEN <<Head(metrics)>> \o NotExistingMetrics(Tail(metrics))
    ELSE NotExistingMetrics(Tail(metrics))

\* the new-metric filter of _extend_exporter
RECURSIVE NewMetrics(_)
NewMetrics(metrics) ==
    IF metrics = << >> THEN << >>
    ELSE IF Head(metrics).status = "new"
    THEN <<Head(metrics)>> \o NewMetrics(Tail(metrics))
    ELSE NewMetrics(Tail(metrics))

\* CodingAgent._create_new_exporter, after the LLM call returned content
create_new_exporter(content) ==
    LET files == parse_coding_response(content)
    IN IF files = EmptyDict THEN <<[k |-> "exporter.go", v |-> content]>> ELSE files

\* faulty variant: the existing files are merged over the parsed ones
ExtendExistingWins(existing, content) ==
    [files |-> DictUpdate(parse_coding_response(content), existing),
     existing |-> existing]

\* the merge of _extend_exporter, after the LLM call returned content:
\* files is the merged mapping, existing what research.existing_code holds
\* afterwards (the merge works on a copy)
extend_exporter(existing, content) ==
    [files |-> DictUpdate(DictCopy(existing), parse_coding_response(content)),
     existing |-> existing]

(***************************************************************************)
(* LLM boundary (agents/llm_provider.py): one CachingLLM instance          *)
(***************************************************************************)
VARIABLES
    lpc,               \* where acall is: idle, cached_call or retry_loop
    messages,          \* the contents of the messages of the running call
    kw_max_retries,    \* max_retries of the running call
    base_delay,        \* base_delay of the running call
    llm_attempt,       \* loop variable of the retry loop
    underlying_calls,  \* llm.acall invocations made by the running call
    delays,            \* the time.sleep arguments of the running call
    lru,               \* the entries of the lru_cache, least recent first
    response,          \* how the last call ended
    acalls,            \* number of acall invocations so far
    invocations,       \* per content: model invocations for single-message calls
    predict_ok,        \* per content: llm.predict invocations that returned
    stored             \* per content: the text llm.predict last returned for it

llmVars == <<lpc, messages, kw_max_retries, base_delay, llm_attempt, underlying_calls,
             delays, lru, response, acalls, invocations, predict_ok, stored>>

\* message contents, and texts the model answers
Contents == {"p1", "p2"}
Texts == {"r1", "r2"}

\* lists of messages passed to acall, by content
MessageLists == {<<"p1">>, <<"p2">>, <<"p1", "p2">>}

NoResponse == [kind |-> "none", content |-> "", via |-> ""]

\* a CachingLLM instance that has served no call
LLMIdle ==
    /\ lpc = "idle"
    /\ messages = << >>
    /\ kw_max_retries = 0
    /\ base_delay = 0
    /\ llm_attempt = 0
    /\ underlying_calls = 0
    /\ delays = << >>
    /\ lru = << >>
    /\ response = NoResponse
    /\ acalls = 0
    /\ invocations = [c \in Contents |-> 0]
    /\ predict_ok = [c \in Contents |-> 0]
    /\ stored = [c \in Contents |-> ""]

(***************************************************************************)
(* The run (Orchestrator.run_agents)                                       *)
(***************************************************************************)
VARIABLES
    pc,                \* where run_agents is
    mode,              \* self.mode
    existing_code,     \* what load_existing_exporter returned
    attempt,           \* loop variable of the research retry loop
    failures,          \* the ValueErrors the running retry loop has caught
    sleeps,            \* number of asyncio.sleep(1) retry delays
    research,          \* the ResearchResult of the research phase
    llm_calls,         \* number of LLM calls issued, by caller
    exporter_artifact, \* exporter_artifact.files
    coding_content,    \* response.content of the code generation LLM call
    tests_content,     \* response.content of the test generation LLM call
    test_artifact,     \* test_artifact.files
    init_rc,           \* exit code of go mod init (-1: not run)
    dep,               \* state of each go get task
    tidy_rc,           \* exit code of go mod tidy (-1: not run)
    dirs,              \* directories of the working directory
    disk,              \* files of the working directory: path -> content
    validated,         \* the current ValidatedCodeArtifact
    retries,           \* the Fix Loop's counter
    test_runs,         \* number of executions of the test command
    test_result,       \* the TestResult
    task,              \* state of the dashboard and the alert task
    completed,         \* the fan-out tasks in the order they completed
    task_result,       \* what each completed task returned
    gathered,          \* dashboard_design, alert_suggestions
    result,            \* the bundle run_agents returned
    error,             \* the exception that left run_agents
    raised_in,         \* the phase that raised it
    files_written      \* the paths this run has written files to

runVars == <<pc, error, raised_in>>

researchVars == <<attempt, failures, sleeps>>

setupVars == <<init_rc, dep, tidy_rc>>

fsVars == <<dirs, disk, files_written>>

testgenVars == <<tests_content, test_artifact>>

fanoutVars == <<task, completed, task_result, gathered>>

tailVars == <<validated, retries, test_runs, test_result, fanoutVars, result>>

\* the state of a run of run_agents
pipelineVars == <<runVars, mode, existing_code, researchVars, research, llm_calls,
                  exporter_artifact, coding_content, testgenVars, setupVars, fsVars,
                  tailVars>>

\* the Orchestrator's construction (Orchestrator.__init__)
VARIABLES
    exporter_path,     \* the exporter_path argument, self.exporter_path
    llm_settings,      \* settings["llm"]
    env_keys,          \* the providers whose API key is in the environment
    agent_llm          \* self.llm of each agent constructed

ctorVars == <<exporter_path, llm_settings, env_keys, agent_llm>>

\* the top-level runner (main.py)
VARIABLES
    mpc,               \* where main is
    main_in,           \* what main finds: arguments, environment, configuration
    main_error,        \* the exception main caught or let go
    exit_status        \* the completion status of the process (-1: running)

mainVars == <<mpc, main_in, main_error, exit_status>>

\* one call of ValidationAgent.validate_code, step by step
VARIABLES
    vpc,               \* where the call is
    ide_commands,      \* self.ide_commands: the tools that are configured
    v_dirs,            \* the directories that exist in the working directory
    v_disk,            \* the files of the working directory
    v_files,           \* artifact.files
    v_i,               \* position of the for loop in artifact.files
    v_validated,       \* the local validated
    temp_files,        \* the local temp_files
    v_exc,             \* the exception leaving the call
    v_trace            \* ghost: what the call did so far, in order

valVars == <<vpc, ide_commands, v_dirs, v_disk, v_files, v_i, v_validated, temp_files,
             v_exc, v_trace>>

\* the two tasks of the dashboard/alert fan-out on the event loop, each in
\* its CachingLLM.acall
VARIABLES
    fan,               \* per task: where it is, its attempt, what it returned
    loop_blocked       \* ghost: seconds the event loop's thread spent blocked

fanVars == <<fan, loop_blocked>>

\* _parse_coding_response applied to one response
VARIABLES
    ppc,               \* "idle", "ready" (response received) or "parsed"
    parse_blocks,      \* ghost: the fenced blocks the response is made of
    parse_files        \* the mapping _parse_coding_response returned

parseVars == <<ppc, parse_blocks, parse_files>>

\* the components exercised on their own
componentVars == <<valVars, fanVars, parseVars>>

hostVars == <<ctorVars, mainVars, componentVars>>

vars == <<pipelineVars, llmVars, hostVars>>

Callers == {"research", "coding", "fix", "tests", "diagnosis", "dashboard", "alert"}

Tasks == {"dashboard", "alert"}

\* go_deps
go_deps == 1..6

\* what load_existing_exporter can return: nothing, or the Go files found
LoadedCode ==
    { EmptyDict,
      <<[k |-> "collectors/a.go", v |-> <<"old">>],
        [k |-> "collectors/b.go", v |-> <<"main", "old">>]>> }

\* the directories run_agents creates before anything else
OutputDirs == {"cmd", "collectors", "connect", "dashboards", "alerts", "logs"}

\* directories a working directory may hold from an earlier run
EarlierDirs == {"cmd/exporter"}

NoContent == <<"<none>">>

NoValidated == [files |-> EmptyDict, validation_errors |-> << >>, formatted_code |-> NoContent]

NoTestResult == [passed |-> FALSE, output |-> ""]

NoResult == [research |-> NoResearch, code |-> NoValidated, test_result |-> NoTestResult,
             dashboard |-> "", alerts |-> ""]

EmptyDisk == [path \in {} |-> << >>]

\* nothing of the later phases has happened
TailIdle ==
    /\ validated = NoValidated
    /\ tests_content = NoContent
    /\ test_artifact = EmptyDict
    /\ retries = 0
    /\ test_runs = 0
    /\ test_result = NoTestResult
    /\ task = [t \in Tasks |-> "idle"]
    /\ completed = << >>
    /\ task_result = [t \in Tasks |-> ""]
    /\ gathered = [t \in Tasks |-> ""]
    /\ result = NoResult

\* exporter_path=None
NoPath == "<None>"

\* the roles get_llm is asked for
Roles == {"research", "coding", "dashboard", "alert", "testing"}

\* the agents whose constructor asks get_llm for a client, in the order
\* Orchestrator.__init__ constructs them
LLMAgents == <<"research", "coding", "dashboard", "alert">>

\* no client
NoClient == [class |-> "None", provider |-> "", model |-> "", temperature |-> 0,
             request_timeout |-> 0]

\* self.llm of an agent that has not been constructed
NoLLM == [class |-> "None", llm |-> NoClient]

\* main is not running
\* the four tools of validate_code, in the order it runs them
Tools == <<"format", "vet", "lint", "security">>

ToolSet == {Tools[n] : n \in DOMAIN Tools}

\* no call of validate_code is under way
ValidateIdle ==
    /\ vpc = "idle"
    /\ ide_commands = ToolSet
    /\ v_dirs = {}
    /\ v_disk = << >>
    /\ v_files = << >>
    /\ v_i = 0
    /\ v_validated = [files |-> << >>, validation_errors |-> << >>,
                      formatted_code |-> <<"<none>">>]
    /\ temp_files = << >>
    /\ v_exc = [exc |-> "None", rule |-> "", arg |-> << >>]
    /\ v_trace = << >>

\* the fan-out has not begun
FanIdle ==
    /\ fan = [t \in {"dashboard", "alert"} |-> [at |-> "ready", attempt |-> 0, content |-> ""]]
    /\ loop_blocked = 0

\* no response is being parsed on its own
ParseIdle == ppc = "idle" /\ parse_blocks = << >> /\ parse_files = << >>

ComponentsIdle == ValidateIdle /\ FanIdle /\ ParseIdle

MainIdle ==
    /\ mpc = "idle"
    /\ main_in = << >>
    /\ main_error = ""
    /\ exit_status = -1

\* an Orchestrator whose construction is over; the configuration of its
\* clients is not looked at
Constructed ==
    /\ exporter_path = IF mode = "extend" THEN "dir" ELSE NoPath
    /\ llm_settings = EmptyDict
    /\ env_keys = {}
    /\ agent_llm = [a \in Roles |-> NoLLM]

Init ==
    /\ pc = "start"
    /\ LLMIdle
    /\ ComponentsIdle
    /\ MainIdle
    /\ files_written = {}
    /\ mode \in {"create", "extend"}
    /\ Constructed
    /\ existing_code = EmptyDict
    /\ attempt = 0
    /\ failures = << >>
    /\ sleeps = 0
    /\ research = NoResearch
    /\ llm_calls = [c \in Callers |-> 0]
    /\ exporter_artifact = EmptyDict
    /\ coding_content = NoContent
    /\ init_rc = -1
    /\ dep = [d \in go_deps |-> "pending"]
    /\ tidy_rc = -1
    /\ dirs \in SUBSET EarlierDirs
    /\ disk = EmptyDisk
    /\ TailIdle
    /\ error = NoError
    /\ raised_in = ""

\* an exception leaves run_agents (logged and re-raised by its except clause)
Abort(err, phase) ==
    /\ pc' = "raised"
    /\ error' = err
    /\ raised_in' = phase

Goto(label) ==
    /\ pc' = label
    /\ UNCHANGED <<error, raised_in>>

Called(caller) == llm_calls' = [llm_calls EXCEPT ![caller] = @ + 1]

\* run_agents up to the research phase: the output directories, and in
\* extend mode the loading of the existing code
StartRun ==
    /\ pc = "start"
    /\ dirs' = dirs \cup OutputDirs
    /\ IF mode = "extend"
       THEN \E code \in LoadedCode :
              IF code = EmptyDict
              THEN /\ Abort(Raise("ValueError"), "load")
                   /\ UNCHANGED existing_code
              ELSE /\ Goto("research")
                   /\ existing_code' = code
       ELSE /\ Goto("research")
            /\ UNCHANGED existing_code
    /\ UNCHANGED <<hostVars, llmVars, mode, testgenVars, researchVars, research, llm_calls,
                   exporter_artifact, coding_content,
                   setupVars, disk, files_written, tailVars>>

\* the last iteration of range(max_retries)
IsLastAttempt(a) == a = ResearchMaxRetries - 1

\* faulty variant: the last failure is wrapped in a ResearchError
ReraiseWrapped(err) == Raise("ResearchError")

\* the bare raise of the except clause: the caught exception itself
Reraise(err) == err

\* the body of the except ValueError clause of both retry loops
CatchValueError(err) ==
    /\ failures' = Append(failures, err)
    /\ IF IsLastAttempt(attempt)
       THEN /\ Abort(Reraise(err), "research")
            /\ UNCHANGED <<attempt, sleeps>>
       ELSE /\ attempt' = attempt + 1
            /\ sleeps' = sleeps + 1
            /\ UNCHANGED runVars
    /\ UNCHANGED research

\* the research result passed validation: the loop returns it
ReturnResearch(res) ==
    /\ research' = res
    /\ failures' = << >>
    /\ Goto("codegen")
    /\ UNCHANGED <<attempt, sleeps>>

\* an exception no clause of the loop catches
Propagate(err) ==
    /\ Abort(err, "research")
    /\ UNCHANGED <<researchVars, research>>

\* one iteration of Orchestrator._retry_research
RetryResearch ==
    /\ pc = "research"
    /\ mode = "create"
    /\ Called("research")
    /\ \/ Propagate(Raise(LLMFailure))
       \/ \E resp \in ResearchResponses :
            LET r == research_system(resp)
            IN IF r.exc # NoError
               THEN Propagate(r.exc)
               ELSE IF validate_metrics(r.ret.metrics) = NoError
               THEN ReturnResearch(r.ret)
               ELSE CatchValueError(validate_metrics(r.ret.metrics))
    /\ UNCHANGED <<hostVars, llmVars, mode, existing_code, testgenVars, exporter_artifact, coding_content,
                   setupVars, fsVars, tailVars>>

\* one iteration of Orchestrator._research_with_existing_code
ResearchWithExistingCode ==
    /\ pc = "research"
    /\ mode = "extend"
    /\ Called("research")
    /\ \/ Propagate(Raise(LLMFailure))
       \/ \E resp \in ResearchResponses :
            LET r == research_with_existing_code(resp, existing_code)
            IN IF r.exc # NoError
               THEN IF r.exc.exc = "ValueError"
                    THEN CatchValueError(r.exc)
                    ELSE Propagate(r.exc)
               ELSE IF validate_metrics(r.ret.metrics) = NoError
               THEN ReturnResearch(r.ret)
               ELSE CatchValueError(validate_metrics(r.ret.metrics))
    /\ UNCHANGED <<hostVars, llmVars, mode, existing_code, testgenVars, exporter_artifact, coding_content,
                   setupVars, fsVars, tailVars>>

\* CodingAgent.generate_exporter, given what the LLM does if it is called:
\* calls is the number of LLM calls made
generate_exporter(res, llm) ==
    IF res.existing_code # EmptyDict
    THEN IF NewMetrics(res.metrics) = << >>
         THEN [exc |-> NoError, files |-> res.existing_code,
               existing |-> res.existing_code, calls |-> 0]
         ELSE IF llm.failed
         THEN [exc |-> Raise(LLMFailure), files |-> EmptyDict,
               existing |-> res.existing_code, calls |-> 1]
         ELSE [exc |-> NoError,
               files |-> extend_exporter(res.existing_code, llm.content).files,
               existing |-> extend_exporter(res.existing_code, llm.content).existing,
               calls |-> 1]
    ELSE IF llm.failed
    THEN [exc |-> Raise(LLMFailure), files |-> EmptyDict,
          existing |-> res.existing_code, calls |-> 1]
    ELSE [exc |-> NoError, files |-> create_new_exporter(llm.content),
          existing |-> res.existing_code, calls |-> 1]

\* what an LLM call for code can do: fail, or return a text
CodingLLM ==
    {[failed |-> TRUE, content |-> << >>]}
        \cup {[failed |-> FALSE, content |-> c] : c \in CodingResponses}

\* the Code Generation phase of run_agents
GenerateExporter ==
    /\ pc = "codegen"
    /\ \E llm \in CodingLLM :
         LET r == generate_exporter(research, llm)
         IN /\ llm_calls' = [llm_calls EXCEPT !["coding"] = @ + r.calls]
            /\ research' = [research EXCEPT !.existing_code = r.existing]
            /\ IF r.exc # NoError
               THEN /\ Abort(r.exc, "codegen")
                    /\ UNCHANGED exporter_artifact
               ELSE /\ exporter_artifact' = r.files
                    /\ Goto("setup_init")
            /\ coding_content' = IF r.calls = 0 \/ llm.failed THEN coding_content
                                 ELSE llm.content
    /\ UNCHANGED <<hostVars, llmVars, mode, existing_code, testgenVars, researchVars, setupVars, fsVars, tailVars>>

(***************************************************************************)
(* Environment Setup (Orchestrator._setup_go_environment)                  *)
(***************************************************************************)
ExitCodes == {0, 1}

\* the except clause: whatever the try block raised becomes this
SetupFailure == Raise("CodeGenerationError")

\* the statement after the try block returns a dict built from research,
\* validated, test_result, dashboard_design and alert_suggestions, names
\* that are bound neither in this function nor in the module
SetupReturn == Raise("NameError")

\* subprocess.run(["go", "mod", "init", module_name])
SetupInit ==
    /\ pc = "setup_init"
    /\ \/ /\ Abort(SetupFailure, "setup")
          /\ UNCHANGED init_rc
       \/ \E rc \in ExitCodes :
            /\ init_rc' = rc
            /\ Goto("setup_launch")
    /\ UNCHANGED <<hostVars, llmVars, mode, existing_code, testgenVars, researchVars, research, llm_calls,
                   exporter_artifact, coding_content,
                   dep, tidy_rc, fsVars, tailVars>>

\* gather() starts the install_dep tasks in list order; each runs to its
\* first suspension, launching its go get process.  A launch that fails
\* ends its task with the exception, which gather() hands to the caller.
LaunchDeps ==
    /\ pc = "setup_launch"
    /\ \E failing \in SUBSET go_deps :
         /\ dep' = [d \in go_deps |-> IF d \in failing THEN "launch_failed" ELSE "running"]
         /\ IF failing = {}
            THEN Goto("setup_deps")
            ELSE Abort(SetupFailure, "setup")
    /\ UNCHANGED <<hostVars, llmVars, mode, existing_code, testgenVars, researchVars, research, llm_calls,
                   exporter_artifact, coding_content,
                   init_rc, tidy_rc, fsVars, tailVars>>

\* proc.communicate() of install_dep(d) completes with an exit code
DepExit(d) ==
    /\ pc = "setup_deps"
    /\ dep[d] = "running"
    /\ \E rc \in ExitCodes :
         dep' = [dep EXCEPT ![d] = IF rc = 0 THEN "exit0" ELSE "exit1"]
    /\ UNCHANGED <<hostVars, llmVars, runVars, mode, existing_code, testgenVars, researchVars, research, llm_calls,
                   exporter_artifact, coding_content,
                   init_rc, tidy_rc, fsVars, tailVars>>

\* faulty variant: the first fetch to finish ends the wait
AnyDepExited == \E d \in go_deps : dep[d] \in {"exit0", "exit1"}

AllDepsExited == \A d \in go_deps : dep[d] \in {"exit0", "exit1"}

\* gather() returned: the results are logged, go mod tidy runs, and the
\* function ends
SetupTidy ==
    /\ pc = "setup_deps"
    /\ AllDepsExited
    /\ \/ /\ Abort(SetupFailure, "setup")
          /\ UNCHANGED tidy_rc
       \/ \E rc \in ExitCodes :
            /\ tidy_rc' = rc
            /\ IF SetupReturn = NoError
               THEN Goto("validate")
               ELSE Abort(SetupReturn, "setup")
    /\ UNCHANGED <<hostVars, llmVars, mode, existing_code, testgenVars, researchVars, research, llm_calls,
                   exporter_artifact, coding_content,
                   init_rc, dep, fsVars, tailVars>>

(***************************************************************************)
(* Validation Phase (agents/validation_agent.py)                           *)
(***************************************************************************)
\* os.path.dirname
Dirname(path) ==
    CASE path = MainPath -> "cmd/exporter"
      [] path \in {"collectors/a.go", "collectors/b.go", "collectors/a_test.go"} -> "collectors"
      [] path = "dashboards/dashboard.txt" -> "dashboards"
      [] path = "alerts/alerts.txt" -> "alerts"
      [] path = "./exporter.go" -> "."
      [] OTHER -> ""

\* the file a relative path names: ./exporter.go is exporter.go
FileOf(path) == IF path = "./exporter.go" THEN "exporter.go" ELSE path

\* open(path, "w") succeeds when the file's directory exists
Writable(path, ds) == Dirname(path) \in {"", "."} \/ Dirname(path) \in ds

WriteFile(d, path, content) ==
    [q \in DOMAIN d \cup {path} |-> IF q = path THEN content ELSE d[q]]

RemoveFiles(d, paths) == [q \in DOMAIN d \ paths |-> d[q]]

\* what one external tool did: whether it exited with 0 (a timeout, a launch
\* failure or an unconfigured tool count as not), and whether it printed
ToolRun(ok, printed) == [ok |-> ok, printed |-> printed]

Quiet == ToolRun(TRUE, FALSE)

Failed == ToolRun(FALSE, TRUE)

\* what the four tools did on one file, and whether the formatter rewrote it
FileOutcome(f, v, l, sec, rw) ==
    [format |-> f, vet |-> v, lint |-> l, security |-> sec, rewritten |-> rw]

FileOutcomes ==
    { FileOutcome(Quiet, Quiet, Quiet, Quiet, FALSE),
      FileOutcome(Quiet, Quiet, Quiet, Quiet, TRUE),
      FileOutcome(Quiet, Quiet, ToolRun(FALSE, FALSE), Quiet, FALSE),
      FileOutcome(Quiet, Quiet, ToolRun(TRUE, TRUE), Quiet, FALSE),
      FileOutcome(Failed, Quiet, Quiet, Quiet, FALSE),
      FileOutcome(Quiet, Failed, Quiet, Failed, TRUE) }

\* what the formatter leaves in a file it rewrites
Reformat(content) == content \o <<"\n">>

ValidationEntry(tool, path) == [tool |-> tool, file |-> path]

\* the entries one file adds to validation_errors, in the order of the tools
FileErrors(path, o) ==
    (IF ~o.format.ok THEN <<ValidationEntry("format", path)>> ELSE << >>)
    \o (IF ~o.vet.ok THEN <<ValidationEntry("vet", path)>> ELSE << >>)
    \o (IF o.lint.printed THEN <<ValidationEntry("lint", path)>> ELSE << >>)
    \o (IF ~o.security.ok THEN <<ValidationEntry("security", path)>> ELSE << >>)

\* faulty variant: the files written are removed whatever the outcome
CleanupAlways(v, d, written) == RemoveFiles(d, written)

\* the finally clause: the files written so far go when an error was recorded
Cleanup(v, d, written) ==
    IF v.validation_errors # << >> THEN RemoveFiles(d, written) ELSE d

\* the loop of validate_code from file i on: v the artifact so far, d the
\* disk, written the files this call has written
RECURSIVE ValidateFrom(_, _, _, _, _, _, _)
ValidateFrom(files, outs, i, v, d, ds, written) ==
    IF i > Len(files)
    THEN [exc |-> NoError, validated |-> v, disk |-> Cleanup(v, d, written),
          wrote |-> written]
    ELSE IF ~Writable(files[i].k, ds)
    THEN [exc |-> Raise("FileNotFoundError"), validated |-> v,
          disk |-> Cleanup(v, d, written), wrote |-> written]
    ELSE LET path == files[i].k
             onDisk == IF outs[i].rewritten THEN Reformat(files[i].v) ELSE files[i].v
             v2 == [v EXCEPT !.validation_errors = @ \o FileErrors(path, outs[i]),
                             !.formatted_code = onDisk]
         IN ValidateFrom(files, outs, i + 1, v2, WriteFile(d, FileOf(path), onDisk), ds,
                         written \cup {FileOf(path)})

\* ValidationAgent.validate_code
validate_code(files, outs, d, ds) ==
    ValidateFrom(files, outs, 1,
                 [files |-> files, validation_errors |-> << >>, formatted_code |-> NoContent],
                 d, ds, {})

\* the Validation phase of run_agents
ValidateCode ==
    /\ pc = "validate"
    /\ \E outs \in [DOMAIN exporter_artifact -> FileOutcomes] :
         LET r == validate_code(exporter_artifact, outs, disk, dirs)
         IN /\ disk' = r.disk
            /\ files_written' = files_written \cup r.wrote
            /\ IF r.exc # NoError
               THEN /\ Abort(r.exc, "validation")
                    /\ UNCHANGED validated
               ELSE /\ validated' = r.validated
                    /\ Goto("fix_loop")
    /\ UNCHANGED <<hostVars, llmVars, mode, existing_code, testgenVars, researchVars, research, llm_calls,
                   exporter_artifact, coding_content,
                   setupVars, dirs, retries, test_runs,
                   test_result, fanoutVars, result>>

(***************************************************************************)
(* Fix Loop                                                                *)
(***************************************************************************)
\* self.max_retries
max_retries == MaxRetriesSetting

\* faulty variant: one iteration too many
FixLoopContinuesOffByOne(v, n) == v.validation_errors # << >> /\ n <= max_retries

\* faulty variant: the loop goes on for as long as there are errors
FixLoopWithoutLimit(v, n) == v.validation_errors # << >>

\* the condition of the while loop
FixLoopContinues(v, n) == v.validation_errors # << >> /\ n < max_retries

\* faulty variant: the fixed text replaces exporter.go among the files
\* validated before, and all of them are validated again
FixCodeErrorsKeepingFiles ==
    /\ pc = "fix_loop"
    /\ FixLoopContinues(validated, retries)
    /\ Called("fix")
    /\ \/ /\ Abort(Raise(LLMFailure), "fix")
          /\ UNCHANGED <<validated, retries, disk, files_written>>
       \/ \E content \in CodingResponses, o \in FileOutcomes :
            LET new_artifact == DictSet(validated.files, "exporter.go", content)
                r == validate_code(new_artifact, [i \in DOMAIN new_artifact |-> o], disk, dirs)
            IN /\ disk' = r.disk
               /\ files_written' = files_written \cup r.wrote
               /\ IF r.exc # NoError
                  THEN /\ Abort(r.exc, "fix")
                       /\ UNCHANGED <<validated, retries>>
                  ELSE /\ validated' = r.validated
                       /\ retries' = retries + 1
                       /\ UNCHANGED runVars
    /\ UNCHANGED <<hostVars, llmVars, mode, existing_code, testgenVars, researchVars, research,
                   exporter_artifact, coding_content, setupVars, dirs, test_runs,
                   test_result, fanoutVars, result>>

\* one iteration: fix_code_errors and retries += 1
FixCodeErrors ==
    /\ pc = "fix_loop"
    /\ FixLoopContinues(validated, retries)
    /\ Called("fix")
    /\ \/ /\ Abort(Raise(LLMFailure), "fix")
          /\ UNCHANGED <<validated, retries, disk, files_written>>
       \/ \E content \in CodingResponses, o \in FileOutcomes :
            LET new_artifact == <<[k |-> "exporter.go", v |-> content]>>
                r == validate_code(new_artifact, <<o>>, disk, dirs)
            IN /\ disk' = r.disk
               /\ files_written' = files_written \cup r.wrote
               /\ IF r.exc # NoError
                  THEN /\ Abort(r.exc, "fix")
                       /\ UNCHANGED <<validated, retries>>
                  ELSE /\ validated' = r.validated
                       /\ retries' = retries + 1
                       /\ UNCHANGED runVars
    /\ UNCHANGED <<hostVars, llmVars, mode, existing_code, testgenVars, researchVars, research, exporter_artifact, coding_content,
                   setupVars, dirs, test_runs, test_result, fanoutVars, result>>

\* the loop ended with errors left
FixLoopFails ==
    /\ pc = "fix_loop"
    /\ ~FixLoopContinues(validated, retries)
    /\ validated.validation_errors # << >>
    /\ Abort(Raise("ValidationError"), "fix")
    /\ UNCHANGED <<hostVars, llmVars, mode, existing_code, testgenVars, researchVars, research, llm_calls,
                   exporter_artifact, coding_content,
                   setupVars, fsVars, tailVars>>

(***************************************************************************)
(* Test generation, writing, Test Phase                                    *)
(***************************************************************************)
\* CodingAgent.generate_tests, after the LLM call returned content
\* faulty variant: the parsed mapping is returned even when it is empty
GenerateTestsWithoutFallback(content) == parse_coding_response(content)

\* CodingAgent.generate_tests, after the LLM call returned content
generate_tests(content) ==
    LET files == parse_coding_response(content)
    IN IF files = EmptyDict THEN <<[k |-> "exporter_test.go", v |-> content]>> ELSE files

\* faulty variant: the check for errors left after the loop is missing
GenerateTestsDespiteErrors ==
    /\ pc = "fix_loop"
    /\ ~FixLoopContinues(validated, retries)
    /\ Called("tests")
    /\ \/ /\ Abort(Raise(LLMFailure), "testgen")
          /\ UNCHANGED <<exporter_artifact, testgenVars>>
       \/ \E content \in CodingResponses :
            /\ tests_content' = content
            /\ test_artifact' = generate_tests(content)
            /\ exporter_artifact' = DictUpdate(exporter_artifact, generate_tests(content))
            /\ Goto("write")
    /\ UNCHANGED <<hostVars, llmVars, mode, existing_code, researchVars, research,
                   coding_content, setupVars, fsVars, tailVars>>

\* the loop ended clean: generate_tests and the update of exporter_artifact
GenerateTests ==
    /\ pc = "fix_loop"
    /\ ~FixLoopContinues(validated, retries)
    /\ validated.validation_errors = << >>
    /\ Called("tests")
    /\ \/ /\ Abort(Raise(LLMFailure), "testgen")
          /\ UNCHANGED <<exporter_artifact, testgenVars>>
       \/ \E content \in CodingResponses :
            /\ tests_content' = content
            /\ test_artifact' = generate_tests(content)
            /\ exporter_artifact' = DictUpdate(exporter_artifact, generate_tests(content))
            /\ Goto("write")
    /\ UNCHANGED <<hostVars, llmVars, mode, existing_code, researchVars, research, coding_content,
                   setupVars, fsVars, tailVars>>

\* os.makedirs(name, exist_ok=True) of a relative name: the directory and
\* its parents
Makedirs(name) ==
    CASE name = "cmd/exporter" -> {"cmd", "cmd/exporter"}
      [] name = "." -> {}
      [] OTHER -> {name}

\* faulty variant: a failed write removes what is in the working directory
RECURSIVE WriteFromWipingOnFailure(_, _, _, _)
WriteFromWipingOnFailure(files, i, d, ds) ==
    IF i > Len(files)
    THEN [exc |-> NoError, disk |-> d, dirs |-> ds, wrote |-> {}]
    ELSE IF Dirname(files[i].k) = ""
    THEN [exc |-> Raise("FileNotFoundError"), disk |-> EmptyDisk, dirs |-> ds, wrote |-> {}]
    ELSE LET r == WriteFromWipingOnFailure(files, i + 1,
                                           WriteFile(d, FileOf(files[i].k), files[i].v),
                                           ds \cup Makedirs(Dirname(files[i].k)))
         IN [r EXCEPT !.wrote = @ \cup {FileOf(files[i].k)}]

\* the loop of _write_files_safely from file i on; makedirs of the empty
\* dirname of a path without directory raises FileNotFoundError, an IOError
RECURSIVE WriteFrom(_, _, _, _)
WriteFrom(files, i, d, ds) ==
    IF i > Len(files)
    THEN [exc |-> NoError, disk |-> d, dirs |-> ds, wrote |-> {}]
    ELSE IF Dirname(files[i].k) = ""
    THEN [exc |-> Raise("FileNotFoundError"), disk |-> d, dirs |-> ds, wrote |-> {}]
    ELSE LET r == WriteFrom(files, i + 1, WriteFile(d, FileOf(files[i].k), files[i].v),
                            ds \cup Makedirs(Dirname(files[i].k)))
         IN [r EXCEPT !.wrote = @ \cup {FileOf(files[i].k)}]

\* faulty variant: nothing is written
write_files_safely_nothing(files, d, ds) ==
    [exc |-> NoError, disk |-> d, dirs |-> ds, wrote |-> {}]

\* Orchestrator._write_files_safely
write_files_safely(files, d, ds) == WriteFrom(files, 1, d, ds)

WriteFiles ==
    /\ pc = "write"
    /\ LET r == write_files_safely(exporter_artifact, disk, dirs)
       IN /\ disk' = r.disk
          /\ files_written' = files_written \cup r.wrote
          /\ dirs' = r.dirs
          /\ IF r.exc # NoError THEN Abort(r.exc, "write") ELSE Goto("test")
    /\ UNCHANGED <<hostVars, llmVars, mode, existing_code, testgenVars, researchVars, research, llm_calls,
                   exporter_artifact, coding_content,
                   setupVars, tailVars>>

\* what the test command can do: exit 0, exit non-zero, or not complete
\* (timeout, launch failure)
TestOutcomes == {"exit0", "exit1", "exception"}

\* faulty variant: a test command that did not complete counts as passed
run_tests_passing_on_exception(outcome) ==
    CASE outcome = "exit0" -> [passed |-> TRUE, output |-> "stdout+stderr"]
      [] outcome = "exit1" -> [passed |-> FALSE, output |-> "stdout+stderr"]
      [] outcome = "exception" -> [passed |-> TRUE, output |-> "str(e)"]

\* EnhancedTestingAgent.run_tests
run_tests(outcome) ==
    CASE outcome = "exit0" -> [passed |-> TRUE, output |-> "stdout+stderr"]
      [] outcome = "exit1" -> [passed |-> FALSE, output |-> "stdout+stderr"]
      [] outcome = "exception" -> [passed |-> FALSE, output |-> "str(e)"]

\* faulty variant: a failed test run raises a TestingError
RunTestsRaisingOnFailure ==
    /\ pc = "test"
    /\ dirs' = dirs \cup {"collectors/testdata"}
    /\ test_runs' = test_runs + 1
    /\ \E outcome \in TestOutcomes :
         /\ test_result' = run_tests(outcome)
         /\ IF run_tests(outcome).passed
            THEN Goto("gather")
            ELSE Abort(Raise("TestingError"), "test")
    /\ UNCHANGED <<hostVars, llmVars, mode, existing_code, testgenVars, researchVars, research, llm_calls,
                   exporter_artifact, coding_content, setupVars, disk, files_written, validated,
                   retries, fanoutVars, result>>

RunTests ==
    /\ pc = "test"
    /\ dirs' = dirs \cup {"collectors/testdata"}
    /\ test_runs' = test_runs + 1
    /\ \E outcome \in TestOutcomes :
         /\ test_result' = run_tests(outcome)
         /\ IF run_tests(outcome).passed THEN Goto("gather") ELSE Goto("diagnose")
    /\ UNCHANGED <<hostVars, llmVars, mode, existing_code, testgenVars, researchVars, research, llm_calls,
                   exporter_artifact, coding_content,
                   setupVars, disk, files_written, validated, retries,
                   fanoutVars, result>>

\* faulty variant: after the diagnosis the test command is run again
DiagnoseThenRetest ==
    /\ pc = "diagnose"
    /\ Called("diagnosis")
    /\ \/ Abort(Raise(LLMFailure), "diagnosis")
       \/ Goto("test")
    /\ UNCHANGED <<hostVars, llmVars, mode, existing_code, testgenVars, researchVars, research,
                   exporter_artifact, coding_content, setupVars, fsVars, tailVars>>

\* Orchestrator._diagnose_test_failure
DiagnoseTestFailure ==
    /\ pc = "diagnose"
    /\ Called("diagnosis")
    /\ \/ Abort(Raise(LLMFailure), "diagnosis")
       \/ Goto("gather")
    /\ UNCHANGED <<hostVars, llmVars, mode, existing_code, testgenVars, researchVars, research, exporter_artifact, coding_content,
                   setupVars, fsVars, tailVars>>

(***************************************************************************)
(* Dashboard and alert fan-out                                             *)
(***************************************************************************)
\* what the dashboard and the alert LLM can answer
TaskTexts == {"text1", "text2"}

\* asyncio.gather(dashboard_future, alert_future): both tasks start, each
\* issuing its LLM call
Gather ==
    /\ pc = "gather"
    /\ task' = [t \in Tasks |-> "running"]
    /\ llm_calls' = [llm_calls EXCEPT !["dashboard"] = @ + 1, !["alert"] = @ + 1]
    /\ Goto("awaiting")
    /\ UNCHANGED <<hostVars, llmVars, mode, existing_code, testgenVars, researchVars, research, exporter_artifact, coding_content,
                   setupVars, fsVars, validated, retries, test_runs, test_result,
                   completed, task_result, gathered, result>>

\* the LLM call of task t returns and the task ends with its content
TaskCompletes(t) ==
    /\ pc \in {"awaiting", "raised"}
    /\ task[t] = "running"
    /\ \E text \in TaskTexts :
         /\ task' = [task EXCEPT ![t] = "done"]
         /\ task_result' = [task_result EXCEPT ![t] = text]
         /\ completed' = Append(completed, t)
    /\ UNCHANGED <<hostVars, llmVars, runVars, mode, existing_code, testgenVars, researchVars, research, llm_calls,
                   exporter_artifact, coding_content,
                   setupVars, fsVars, validated, retries,
                   test_runs, test_result, gathered, result>>

\* the LLM call of task t fails and the task ends with the exception
TaskFails(t) ==
    /\ pc \in {"awaiting", "raised"}
    /\ task[t] = "running"
    /\ task' = [task EXCEPT ![t] = "failed"]
    /\ UNCHANGED <<hostVars, llmVars, runVars, mode, existing_code, testgenVars, researchVars, research, llm_calls,
                   exporter_artifact, coding_content,
                   setupVars, fsVars, validated, retries,
                   test_runs, test_result, completed, task_result, gathered, result>>

\* gather() hands the first exception to run_agents; the other task is
\* left running
GatherRaises ==
    /\ pc = "awaiting"
    /\ \E t \in Tasks : task[t] = "failed"
    /\ Abort(Raise(LLMFailure), "fanout")
    /\ UNCHANGED <<hostVars, llmVars, mode, existing_code, testgenVars, researchVars, research, llm_calls,
                   exporter_artifact, coding_content,
                   setupVars, fsVars, tailVars>>

\* faulty variant: the results in the order the tasks completed
GatherResultsInCompletionOrder(order, results) ==
    [t \in Tasks |-> results[order[IF t = "dashboard" THEN 1 ELSE 2]]]

\* the list gather() returns: the results in the order of its arguments
GatherResults(order, results) == results

\* faulty variant: the wait ends when the first task is done
GatherReturnsOnFirstCompletion ==
    /\ pc = "awaiting"
    /\ \E t \in Tasks : task[t] = "done"
    /\ gathered' = task_result
    /\ Goto("save_dashboard")
    /\ UNCHANGED <<hostVars, llmVars, mode, existing_code, testgenVars, researchVars, research, llm_calls,
                   exporter_artifact, coding_content, setupVars, fsVars, validated,
                   retries, test_runs, test_result, task, completed, task_result,
                   result>>

\* both tasks are done: gather() returns and the two results are unpacked
GatherReturns ==
    /\ pc = "awaiting"
    /\ \A t \in Tasks : task[t] = "done"
    /\ gathered' = GatherResults(completed, task_result)
    /\ Goto("save_dashboard")
    /\ UNCHANGED <<hostVars, llmVars, mode, existing_code, testgenVars, researchVars, research, llm_calls,
                   exporter_artifact, coding_content,
                   setupVars, fsVars, validated, retries,
                   test_runs, test_result, task, completed, task_result, result>>

SaveDashboard ==
    /\ pc = "save_dashboard"
    /\ disk' = WriteFile(disk, "dashboards/dashboard.txt", <<gathered["dashboard"]>>)
    /\ files_written' = files_written \cup {"dashboards/dashboard.txt"}
    /\ Goto("save_alerts")
    /\ UNCHANGED <<hostVars, llmVars, mode, existing_code, testgenVars, researchVars, research, llm_calls,
                   exporter_artifact, coding_content,
                   setupVars, dirs, tailVars>>

\* the alert file is written and run_agents returns the bundle
SaveAlerts ==
    /\ pc = "save_alerts"
    /\ disk' = WriteFile(disk, "alerts/alerts.txt", <<gathered["alert"]>>)
    /\ files_written' = files_written \cup {"alerts/alerts.txt"}
    /\ result' = [research |-> research, code |-> validated, test_result |-> test_result,
                  dashboard |-> gathered["dashboard"], alerts |-> gathered["alert"]]
    /\ Goto("returned")
    /\ UNCHANGED <<hostVars, llmVars, mode, existing_code, testgenVars, researchVars, research, llm_calls,
                   exporter_artifact, coding_content,
                   setupVars, dirs, validated, retries,
                   test_runs, test_result, fanoutVars>>

(***************************************************************************)
(* Specifications                                                          *)
(***************************************************************************)
\* a run of run_agents
Next ==
    \/ StartRun
    \/ RetryResearch
    \/ ResearchWithExistingCode
    \/ GenerateExporter
    \/ SetupInit
    \/ LaunchDeps
    \/ \E d \in go_deps : DepExit(d)
    \/ SetupTidy

Spec == Init /\ [][Next]_vars

\* run_agents from the Validation phase on, entered with what the research
\* and code generation phases can hand over and a returned Environment Setup
InitAfterSetup ==
    /\ pc = "validate"
    /\ LLMIdle
    /\ ComponentsIdle
    /\ MainIdle
    /\ files_written = {}
    /\ mode \in {"create", "extend"}
    /\ Constructed
    /\ existing_code \in IF mode = "extend" THEN LoadedCode \ {EmptyDict} ELSE {EmptyDict}
    /\ \E resp \in ResearchResponses, llm \in CodingLLM :
         LET r == IF mode = "extend"
                  THEN research_with_existing_code(resp, existing_code)
                  ELSE research_system(resp)
             g == generate_exporter(r.ret, llm)
         IN /\ r.exc = NoError
            /\ validate_metrics(r.ret.metrics) = NoError
            /\ g.exc = NoError
            /\ research = [r.ret EXCEPT !.existing_code = g.existing]
            /\ exporter_artifact = g.files
            /\ coding_content = IF g.calls = 0 THEN NoContent ELSE llm.content
            /\ llm_calls = [c \in Callers |->
                              CASE c = "research" -> 1
                                [] c = "coding" -> g.calls
                                [] OTHER -> 0]
    /\ attempt = 0
    /\ failures = << >>
    /\ sleeps = 0
    /\ init_rc = 0
    /\ dep = [d \in go_deps |-> "exit0"]
    /\ tidy_rc = 0
    /\ \E earlier \in SUBSET EarlierDirs : dirs = OutputDirs \cup earlier
    /\ disk = EmptyDisk
    /\ TailIdle
    /\ error = NoError
    /\ raised_in = ""

NextAfterSetup ==
    \/ ValidateCode
    \/ FixCodeErrors
    \/ FixLoopFails
    \/ GenerateTests
    \/ WriteFiles
    \/ RunTests
    \/ DiagnoseTestFailure
    \/ Gather
    \/ \E t \in Tasks : TaskCompletes(t)
    \/ \E t \in Tasks : TaskFails(t)
    \/ GatherRaises
    \/ GatherReturns
    \/ SaveDashboard
    \/ SaveAlerts

SpecAfterSetup == InitAfterSetup /\ [][NextAfterSetup]_vars

\* run_agents as a whole: the run from its first line, and the run from the
\* Validation phase on; every call the run waits for returns or raises, so
\* the run keeps taking steps while it has one to take
InitRun == Init \/ InitAfterSetup

NextRun == Next \/ NextAfterSetup

SpecRunFair == InitRun /\ [][NextRun]_vars /\ WF_vars(NextRun)

(***************************************************************************)
(* CachingLLM.acall and CachingLLM._cached_call                            *)
(***************************************************************************)
\* number of acall invocations explored on the instance
MaxCalls == 3

\* lru_cache(maxsize=100)
CacheMaxSize == 100

\* kwargs.get("max_retries", 3) and kwargs.get("base_delay", 2)
DefaultMaxRetries == 3
DefaultBaseDelay == 2

\* values of max_retries and base_delay a caller passes or leaves to default
MaxRetriesArgs == 0..DefaultMaxRetries
BaseDelayArgs == {1, DefaultBaseDelay}

\* what the model raises when an invocation fails
ProviderException == "ProviderException"

RECURSIVE Pow2(_)
Pow2(n) == IF n = 0 THEN 1 ELSE 2 * Pow2(n - 1)

\* faulty variant: the same delay before every retry
FixedDelay(base, a) == base

\* delay = base_delay * (2 ** attempt)
BackoffDelay(base, a) == base * Pow2(a)

\* faulty variant: every content is cached under one key
CacheKeyIgnoringContent(content) == "p1"

\* the key of a cache entry: the message content (of this instance)
CacheKey(content) == content

Cached(key) == \E i \in DOMAIN lru : lru[i].k = key

CacheValue(key) == lru[CHOOSE i \in DOMAIN lru : lru[i].k = key].v

\* the entries without the one under key
RECURSIVE LruWithout(_, _)
LruWithout(entries, key) ==
    IF entries = << >> THEN << >>
    ELSE IF Head(entries).k = key THEN LruWithout(Tail(entries), key)
    ELSE <<Head(entries)>> \o LruWithout(Tail(entries), key)

\* a hit makes the entry the most recent one
LruTouch(entries, key) ==
    Append(LruWithout(entries, key), [k |-> key, v |-> CacheValue(key)])

\* a miss stores the result, dropping the least recent entry of a full cache
LruInsert(entries, key, val) ==
    Append(IF Len(entries) >= CacheMaxSize THEN Tail(entries) ELSE entries,
           [k |-> key, v |-> val])

AcallReturns(content, via) ==
    /\ response' = [kind |-> "returned", content |-> content, via |-> via]
    /\ lpc' = "idle"

AcallRaises(exc) ==
    /\ response' = [kind |-> "raised", content |-> exc, via |-> "llm"]
    /\ lpc' = "idle"

SingleMessage == Len(messages) = 1

\* a model invocation made while serving a single-message call is counted
\* for the content of that message
CountInvocation ==
    invocations' = IF SingleMessage
                   THEN [invocations EXCEPT ![messages[1]] = @ + 1]
                   ELSE invocations

\* acall is entered: the kwargs are read and a single message goes to the
\* cached call
AcallBegin ==
    /\ lpc = "idle"
    /\ acalls < MaxCalls
    /\ acalls' = acalls + 1
    /\ \E msgs \in MessageLists, mr \in MaxRetriesArgs, bd \in BaseDelayArgs :
         /\ messages' = msgs
         /\ kw_max_retries' = mr
         /\ base_delay' = bd
         /\ lpc' = IF Len(msgs) = 1 THEN "cached_call" ELSE "retry_loop"
    /\ llm_attempt' = 0
    /\ underlying_calls' = 0
    /\ delays' = << >>
    /\ response' = NoResponse
    /\ UNCHANGED <<lru, invocations, predict_ok, stored, pipelineVars, hostVars>>

\* _cached_call finds the content in the cache
CachedCallHit ==
    /\ lpc = "cached_call"
    /\ Cached(CacheKey(messages[1]))
    /\ lru' = LruTouch(lru, CacheKey(messages[1]))
    /\ AcallReturns(CacheValue(CacheKey(messages[1])), "cache")
    /\ UNCHANGED <<messages, kw_max_retries, base_delay, llm_attempt, underlying_calls,
                   delays, acalls, invocations, predict_ok, stored, pipelineVars, hostVars>>

\* _cached_call misses and llm.predict returns: the text is stored and
\* returned
CachedCallMiss ==
    /\ lpc = "cached_call"
    /\ ~Cached(CacheKey(messages[1]))
    /\ CountInvocation
    /\ predict_ok' = [predict_ok EXCEPT ![messages[1]] = @ + 1]
    /\ \E text \in Texts :
         /\ lru' = LruInsert(lru, CacheKey(messages[1]), text)
         /\ stored' = [stored EXCEPT ![messages[1]] = text]
         /\ AcallReturns(text, "cache")
    /\ UNCHANGED <<messages, kw_max_retries, base_delay, llm_attempt, underlying_calls,
                   delays, acalls, pipelineVars, hostVars>>

\* _cached_call misses and llm.predict raises: nothing is stored, the
\* exception is swallowed and the call goes on to the retry loop
CachedCallFails ==
    /\ lpc = "cached_call"
    /\ ~Cached(CacheKey(messages[1]))
    /\ CountInvocation
    /\ lpc' = "retry_loop"
    /\ UNCHANGED <<messages, kw_max_retries, base_delay, llm_attempt, underlying_calls,
                   delays, lru, response, acalls, predict_ok, stored, pipelineVars, hostVars>>

\* range(max_retries) is empty: the function ends without a return value
LoopSkipped ==
    /\ lpc = "retry_loop"
    /\ kw_max_retries = 0
    /\ AcallReturns("None", "llm")
    /\ UNCHANGED <<messages, kw_max_retries, base_delay, llm_attempt, underlying_calls,
                   delays, lru, acalls, invocations, predict_ok, stored, pipelineVars, hostVars>>

\* llm.acall returns: acall returns that response
UnderlyingReturns ==
    /\ lpc = "retry_loop"
    /\ llm_attempt < kw_max_retries
    /\ underlying_calls' = underlying_calls + 1
    /\ CountInvocation
    /\ \E text \in Texts : AcallReturns(text, "llm")
    /\ UNCHANGED <<messages, kw_max_retries, base_delay, llm_attempt, delays, lru,
                   acalls, predict_ok, stored, pipelineVars, hostVars>>

\* llm.acall raises: a blocking sleep and the next attempt, or on the last
\* attempt the bare raise of the exception caught
UnderlyingFails ==
    /\ lpc = "retry_loop"
    /\ llm_attempt < kw_max_retries
    /\ underlying_calls' = underlying_calls + 1
    /\ CountInvocation
    /\ IF llm_attempt < kw_max_retries - 1
       THEN /\ delays' = Append(delays, BackoffDelay(base_delay, llm_attempt))
            /\ llm_attempt' = llm_attempt + 1
            /\ UNCHANGED <<lpc, response>>
       ELSE /\ AcallRaises(ProviderException)
            /\ UNCHANGED <<delays, llm_attempt>>
    /\ UNCHANGED <<messages, kw_max_retries, base_delay, lru, acalls, predict_ok,
                   stored, pipelineVars, hostVars>>

NextLLM ==
    \/ AcallBegin
    \/ CachedCallHit
    \/ CachedCallMiss
    \/ CachedCallFails
    \/ LoopSkipped
    \/ UnderlyingReturns
    \/ UnderlyingFails

\* a CachingLLM instance serving calls, beside a run that has not started
InitLLM ==
    /\ Init
    /\ mode = "create"
    /\ dirs = {}

SpecLLM == InitLLM /\ [][NextLLM]_vars

(***************************************************************************)
(* get_llm and LLMFactory (agents/llm_provider.py)                         *)
(*                                                                         *)
(* settings["llm"] is a dict from role to a dict with the optional keys    *)
(* provider, model and temperature; a temperature is counted in tenths.    *)
(***************************************************************************)
\* dict.get(key, default)
ConfigGet(d, key, default) == IF key \in DictKeys(d) THEN DictGet(d, key) ELSE default

\* get_llm() without argument: agent_type=None
NoRole == "<None>"

ProviderKey(name) == [k |-> "provider", v |-> name]
ModelKey(name) == [k |-> "model", v |-> name]
TemperatureKey(tenths) == [k |-> "temperature", v |-> tenths]

\* the configuration get_llm falls back to when there is no default entry
FallbackConfig == <<ProviderKey("gpt-turbo"), ModelKey("gpt-3.5-turbo")>>

\* llm sections of settings.yaml
LLMSettings ==
    { EmptyDict,
      <<[k |-> "research", v |-> <<ProviderKey("claude"), ModelKey("claude-instant-1"),
                                   TemperatureKey(2)>>],
        [k |-> "default", v |-> <<ProviderKey("gpt-turbo"), ModelKey("gpt-3.5-turbo")>>]>>,
      <<[k |-> "default", v |-> <<ProviderKey("Claude"), ModelKey("claude-2"),
                                  TemperatureKey(7)>>],
        [k |-> "coding", v |-> <<ModelKey("gpt-4")>>]>>,
      <<[k |-> "alert", v |-> <<ProviderKey("llama"), ModelKey("llama-2")>>],
        [k |-> "default", v |-> <<ProviderKey("gpt-4"), ModelKey("gpt-4"),
                                  TemperatureKey(0)>>]>>,
      <<[k |-> "dashboard", v |-> <<ProviderKey("40"), ModelKey("gpt-4o"),
                                    TemperatureKey(10)>>]>> }

\* the environment variables that can hold an API key
KeyVariables == {"OPENAI_API_KEY", "ANTHROPIC_API_KEY"}

\* str.lower() on the provider names of the settings
Lower(name) == IF name = "Claude" THEN "claude" ELSE name

OpenAIProviders == {"gpt-turbo", "openai", "gpt-4", "40"}

\* LLMFactory.validate_api_key: the error it raises, if any
validate_api_key(provider, keys) ==
    IF Lower(provider) \in OpenAIProviders /\ "OPENAI_API_KEY" \notin keys
    THEN Raise("APIKeyError")
    ELSE IF Lower(provider) = "claude" /\ "ANTHROPIC_API_KEY" \notin keys
    THEN Raise("APIKeyError")
    ELSE NoError

Client(class, provider, model, temperature, timeout) ==
    [class |-> class, provider |-> provider, model |-> model,
     temperature |-> temperature, request_timeout |-> timeout]

\* LLMFactory.create_llm(provider, model, temperature); the client keeps the
\* provider it was asked for
create_llm(provider, model, temperature, keys) ==
    IF validate_api_key(provider, keys) # NoError
    THEN [exc |-> validate_api_key(provider, keys), client |-> NoClient]
    ELSE IF Lower(provider) \in {"gpt-turbo", "openai"}
    THEN [exc |-> NoError, client |-> Client("ChatOpenAI", provider, model, temperature, 60)]
    ELSE IF Lower(provider) = "claude"
    THEN [exc |-> NoError, client |-> Client("ChatAnthropic", provider, model, temperature, 0)]
    ELSE IF Lower(provider) \in {"gpt-4", "40"}
    THEN [exc |-> NoError, client |-> Client("ChatOpenAI", provider, model, temperature, 90)]
    ELSE [exc |-> Raise("LLMProviderError"), client |-> NoClient]

\* faulty variant: the role is looked up under the name default
SelectDefaultConfig(agent_type, llm_configs) ==
    ConfigGet(llm_configs, "default", FallbackConfig)

\* the entry get_llm reads the configuration from
SelectConfig(agent_type, llm_configs) ==
    IF agent_type \notin {NoRole, ""} /\ agent_type \in DictKeys(llm_configs)
    THEN DictGet(llm_configs, agent_type)
    ELSE ConfigGet(llm_configs, "default", FallbackConfig)

\* get_llm(agent_type)
get_llm(agent_type, llm_configs, keys) ==
    LET config == SelectConfig(agent_type, llm_configs)
        r == create_llm(ConfigGet(config, "provider", "gpt-turbo"),
                        ConfigGet(config, "model", "gpt-3.5-turbo"),
                        ConfigGet(config, "temperature", 0), keys)
    IN IF r.exc # NoError
       THEN [exc |-> r.exc, llm |-> NoLLM]
       ELSE [exc |-> NoError, llm |-> [class |-> "CachingLLM", llm |-> r.client]]

(***************************************************************************)
(* Construction (Orchestrator.__init__)                                    *)
(***************************************************************************)
\* the agents are constructed in order, each asking get_llm for its client;
\* the first exception ends the construction
RECURSIVE ConstructAgents(_, _, _, _)
ConstructAgents(agents, llms, llm_configs, keys) ==
    IF agents = << >> THEN [exc |-> NoError, llms |-> llms]
    ELSE LET r == get_llm(Head(agents), llm_configs, keys)
         IN IF r.exc # NoError
            THEN [exc |-> r.exc, llms |-> llms]
            ELSE ConstructAgents(Tail(agents), [llms EXCEPT ![Head(agents)] = r.llm],
                                 llm_configs, keys)

\* faulty variant: the path is not looked at
PathMissingNever(path) == FALSE

\* not exporter_path
PathMissing(path) == path \in {NoPath, ""}

\* Orchestrator(target, mode, exporter_path)
Construct ==
    /\ pc = "new"
    /\ LET r == ConstructAgents(LLMAgents, agent_llm, llm_settings, env_keys)
       IN /\ agent_llm' = r.llms
          /\ IF r.exc # NoError
             THEN Abort(r.exc, "init")
             ELSE IF mode = "extend" /\ PathMissing(exporter_path)
             THEN Abort(Raise("ValueError"), "init")
             ELSE Goto("start")
    /\ UNCHANGED <<llmVars, mainVars, componentVars, exporter_path, llm_settings, env_keys, mode,
                   existing_code, researchVars, research, llm_calls, exporter_artifact,
                   coding_content, testgenVars, setupVars, fsVars, tailVars>>

\* no run has started in the working directory
NoRunYet ==
    /\ existing_code = EmptyDict
    /\ attempt = 0
    /\ failures = << >>
    /\ sleeps = 0
    /\ research = NoResearch
    /\ llm_calls = [c \in Callers |-> 0]
    /\ exporter_artifact = EmptyDict
    /\ coding_content = NoContent
    /\ init_rc = -1
    /\ dep = [d \in go_deps |-> "pending"]
    /\ tidy_rc = -1
    /\ dirs = {}
    /\ disk = EmptyDisk
    /\ files_written = {}
    /\ TailIdle
    /\ error = NoError
    /\ raised_in = ""

\* the arguments and the surroundings of a construction
InitConstruct ==
    /\ pc = "new"
    /\ LLMIdle
    /\ ComponentsIdle
    /\ MainIdle
    /\ mode \in {"create", "extend"}
    /\ exporter_path \in {NoPath, "", "dir"}
    /\ llm_settings \in LLMSettings
    /\ env_keys \in SUBSET KeyVariables
    /\ agent_llm = [a \in Roles |-> NoLLM]
    /\ NoRunYet

\* a construction and, when it succeeds, the first phases of a run
NextConstruct ==
    \/ Construct
    \/ StartRun
    \/ RetryResearch
    \/ ResearchWithExistingCode
    \/ GenerateExporter

SpecConstruct == InitConstruct /\ [][NextConstruct]_vars

(***************************************************************************)
(* The top-level runner (main.py)                                          *)
(***************************************************************************)
\* the choices of --log-level
LogLevels == {"DEBUG", "INFO", "WARNING", "ERROR", "CRITICAL"}

\* what load_config finds: both files load as mappings, a file is missing
\* or unreadable, a file is not YAML, a file is empty, or a file holds
\* something that is not a mapping
ConfigFiles == {"ok", "os_error", "yaml_error", "empty_prompts", "empty_settings",
                "not_mapping"}

\* what main can find: whether the command line parses, the logging
\* options, whether the log file can be set up, whether OPENAI_API_KEY is
\* set, and the configuration files
MainInputs ==
    [argv_ok : BOOLEAN, log_level : LogLevels, no_console : BOOLEAN,
     log_file : {"ok", "os_error"}, openai_key : BOOLEAN, config : ConfigFiles]

\* the attributes of the namespace parse_args returns
ArgsAttributes == {"target", "log_level", "log_file", "no_console"}

\* the status of a process that ends with an exception nothing caught
UncaughtStatus == 1

\* the status argparse exits with on a command line it rejects
ArgparseErrorStatus == 2

\* faulty variant: the last handler reports success
ExceptStatusUnexpectedIsSuccess(exc) ==
    IF exc \in {"ConfigError", "APIKeyError", "ExporterAgentError"} THEN 1 ELSE 0

\* what the except clauses of main return for an exception of class exc
ExceptStatus(exc) == 1

\* load_config, by what it raises ("" when it returns)
load_config(files) ==
    CASE files \in {"os_error", "yaml_error", "empty_prompts", "empty_settings"} -> "ConfigError"
      [] OTHER -> ""

\* main returns status, which sys.exit hands to the process
MainReturns(status, exc) ==
    /\ mpc' = "done"
    /\ exit_status' = status
    /\ main_error' = exc

MainGoto(label) ==
    /\ mpc' = label
    /\ UNCHANGED <<main_error, exit_status>>

\* args = parse_args()
MainParseArgs ==
    /\ mpc = "parse_args"
    /\ IF main_in.argv_ok
       THEN MainGoto("setup_logging")
       ELSE MainReturns(ArgparseErrorStatus, "SystemExit")
    /\ UNCHANGED <<main_in, ctorVars, componentVars, llmVars, pipelineVars>>

\* logger = setup_logging(...): outside the try block
MainSetupLogging ==
    /\ mpc = "setup_logging"
    /\ IF main_in.log_file = "ok"
       THEN MainGoto("check_environment")
       ELSE MainReturns(UncaughtStatus, "OSError")
    /\ UNCHANGED <<main_in, ctorVars, componentVars, llmVars, pipelineVars>>

\* if not check_environment(): return 1
MainCheckEnvironment ==
    /\ mpc = "check_environment"
    /\ IF main_in.openai_key
       THEN MainGoto("load_config")
       ELSE MainReturns(1, "")
    /\ UNCHANGED <<main_in, ctorVars, componentVars, llmVars, pipelineVars>>

\* load_config() and the injection of what it loaded into sys.modules
MainLoadConfig ==
    /\ mpc = "load_config"
    /\ IF load_config(main_in.config) # ""
       THEN MainReturns(ExceptStatus(load_config(main_in.config)), load_config(main_in.config))
       ELSE IF main_in.config = "not_mapping"
       THEN MainReturns(ExceptStatus("TypeError"), "TypeError")
       ELSE MainGoto("start_orchestrator")
    /\ UNCHANGED <<main_in, ctorVars, componentVars, llmVars, pipelineVars>>

\* the log line before the Orchestrator is constructed reads args.mode
MainStartOrchestrator ==
    /\ mpc = "start_orchestrator"
    /\ IF "mode" \notin ArgsAttributes
       THEN MainReturns(ExceptStatus("AttributeError"), "AttributeError")
       ELSE MainGoto("orchestrator")
    /\ UNCHANGED <<main_in, ctorVars, componentVars, llmVars, pipelineVars>>

\* a process entering main, by what it finds; no Orchestrator exists
InitMain ==
    /\ mpc = "parse_args"
    /\ main_in \in MainInputs
    /\ main_error = ""
    /\ exit_status = -1
    /\ pc = "new"
    /\ LLMIdle
    /\ ComponentsIdle
    /\ mode = "create"
    /\ exporter_path = NoPath
    /\ llm_settings = EmptyDict
    /\ env_keys = IF main_in.openai_key THEN {"OPENAI_API_KEY"} ELSE {}
    /\ agent_llm = [a \in Roles |-> NoLLM]
    /\ NoRunYet

NextMain ==
    \/ MainParseArgs
    \/ MainSetupLogging
    \/ MainCheckEnvironment
    \/ MainLoadConfig
    \/ MainStartOrchestrator

SpecMain == InitMain /\ [][NextMain]_vars

(***************************************************************************)
(* ValidationAgent.validate_code, step by step                             *)
(*                                                                         *)
(* One call: the for loop over artifact.files, the four run_ide_command    *)
(* calls of each file, the re-read, and the finally clause.                *)
(***************************************************************************)
\* what one invocation of a tool meets: the process exits with 0 or with
\* another code, runs out of its timeout, or cannot be launched; printed: it
\* wrote to stdout or stderr; rewritten: it changed the file
ToolOutcome(kind, printed, rewritten) ==
    [kind |-> kind, printed |-> printed, rewritten |-> rewritten]

\* the key is not in self.ide_commands: no process is started
Unconfigured == ToolOutcome("unconfigured", FALSE, FALSE)

\* the outcomes explored: the output decides something for lint only, and
\* the formatter is the tool that rewrites
ToolOutcomes(tool) ==
    {ToolOutcome("timeout", FALSE, FALSE), ToolOutcome("launch_error", FALSE, FALSE)}
        \cup CASE tool = "format" ->
                    {ToolOutcome("exit0", FALSE, FALSE), ToolOutcome("exit0", FALSE, TRUE),
                     ToolOutcome("nonzero", TRUE, FALSE)}
               [] tool = "lint" ->
                    {ToolOutcome(k, pr, FALSE) : k \in {"exit0", "nonzero"}, pr \in BOOLEAN}
               [] OTHER ->
                    {ToolOutcome("exit0", FALSE, FALSE), ToolOutcome("nonzero", TRUE, FALSE)}

\* faulty variant: only a non-zero exit counts as a failure
run_ide_command_exit_code_only(tool, configured, o) ==
    [success |-> o.kind # "nonzero", output |-> o.printed]

\* ValidationAgent.run_ide_command: success, and whether the text returned is
\* not empty (the message "Unknown tool", the text of the exception, or the
\* process's stdout + stderr)
run_ide_command(tool, configured, o) ==
    IF tool \notin configured
    THEN [success |-> FALSE, output |-> TRUE]
    ELSE IF o.kind \in {"timeout", "launch_error"}
    THEN [success |-> FALSE, output |-> TRUE]
    ELSE [success |-> o.kind = "exit0", output |-> o.printed]

\* faulty variant: lint is treated like the other tools
LintReportsOnFailure(r) == ~r.success

\* if lint_output:
LintReports(r) == r.output

\* the entry a tool's result adds to validated.validation_errors
ToolErrors(tool, path, r) ==
    IF (IF tool = "lint" THEN LintReports(r) ELSE ~r.success)
    THEN <<ValidationEntry(tool, path)>>
    ELSE << >>

ToolIndex(tool) == CHOOSE n \in DOMAIN Tools : Tools[n] = tool

\* faulty variant: a failed tool ends the checks of its file
AfterToolStoppingAtFailure(tool, r) ==
    IF ~r.success THEN "read"
    ELSE IF ToolIndex(tool) < Len(Tools) THEN Tools[ToolIndex(tool) + 1] ELSE "read"

\* the statement that follows the handling of a tool's result
AfterTool(tool, r) ==
    IF ToolIndex(tool) < Len(Tools) THEN Tools[ToolIndex(tool) + 1] ELSE "read"

\* faulty variant: the first file read stays
FormattedCodeFirstWins(v, content) ==
    IF v.formatted_code = NoContent THEN content ELSE v.formatted_code

\* validated.formatted_code = f.read()
FormattedCode(v, content) == content

\* the artifacts a call is given: no file, one file, two files, and two
\* files of which the second lies in a directory that does not exist
ValArtifacts ==
    { EmptyDict,
      <<[k |-> "exporter.go", v |-> <<"x">>]>>,
      <<[k |-> "collectors/a.go", v |-> <<"old">>], [k |-> "exporter.go", v |-> <<"x", "y">>]>>,
      <<[k |-> "exporter.go", v |-> <<"x">>], [k |-> MainPath, v |-> <<"main">>]>> }

\* settings["go_tools"] names all four tools, or lacks one
ToolConfigs == {ToolSet, ToolSet \ {"lint"}, ToolSet \ {"security"}}

\* a step of the call: output tells whether run_ide_command returned a text
Did(op, path, kind, output) == [op |-> op, file |-> path, kind |-> kind, output |-> output]

\* lines 29-30: the call begins
ValidateBegin ==
    /\ vpc = "idle"
    /\ \E files \in ValArtifacts :
         /\ v_files' = files
         /\ v_validated' = [files |-> files, validation_errors |-> << >>,
                            formatted_code |-> NoContent]
    /\ temp_files' = << >>
    /\ v_i' = 1
    /\ vpc' = "for"
    /\ UNCHANGED <<ide_commands, v_dirs, v_disk, v_exc, v_trace>>
    /\ UNCHANGED <<ctorVars, mainVars, fanVars, parseVars, llmVars, pipelineVars>>

\* the for loop is exhausted: return validated
ValidateLoopEnds ==
    /\ vpc = "for"
    /\ v_i > Len(v_files)
    /\ vpc' = "finally"
    /\ UNCHANGED <<ide_commands, v_dirs, v_disk, v_files, v_i, v_validated, temp_files,
                   v_exc, v_trace>>
    /\ UNCHANGED <<ctorVars, mainVars, fanVars, parseVars, llmVars, pipelineVars>>

\* lines 33-35: the next file is noted in temp_files and written
ValidateWriteFile ==
    /\ vpc = "for"
    /\ v_i <= Len(v_files)
    /\ LET path == v_files[v_i].k
       IN /\ temp_files' = Append(temp_files, path)
          /\ IF Writable(path, v_dirs)
             THEN /\ v_disk' = WriteFile(v_disk, FileOf(path), v_files[v_i].v)
                  /\ v_trace' = Append(v_trace, Did("write", path, "ok", FALSE))
                  /\ vpc' = Tools[1]
                  /\ UNCHANGED v_exc
             ELSE /\ v_exc' = Raise("FileNotFoundError")
                  /\ v_trace' = Append(v_trace, Did("write", path, "FileNotFoundError", FALSE))
                  /\ vpc' = "finally"
                  /\ UNCHANGED v_disk
    /\ UNCHANGED <<ide_commands, v_dirs, v_files, v_i, v_validated>>
    /\ UNCHANGED <<ctorVars, mainVars, fanVars, parseVars, llmVars, pipelineVars>>

\* lines 37-51: one run_ide_command call and the handling of its result
ValidateRunTool ==
    /\ vpc \in ToolSet
    /\ \E o \in IF vpc \in ide_commands THEN ToolOutcomes(vpc) ELSE {Unconfigured} :
         LET path == v_files[v_i].k
             r == run_ide_command(vpc, ide_commands, o)
         IN /\ v_validated' = [v_validated EXCEPT
                                  !.validation_errors = @ \o ToolErrors(vpc, path, r)]
            /\ v_disk' = IF o.rewritten
                         THEN WriteFile(v_disk, FileOf(path), Reformat(v_disk[FileOf(path)]))
                         ELSE v_disk
            /\ v_trace' = Append(v_trace, Did(vpc, path, o.kind, r.output))
            /\ vpc' = AfterTool(vpc, r)
    /\ UNCHANGED <<ide_commands, v_dirs, v_files, v_i, temp_files, v_exc>>
    /\ UNCHANGED <<ctorVars, mainVars, fanVars, parseVars, llmVars, pipelineVars>>

\* lines 52-53: the file is read back into formatted_code
ValidateReread ==
    /\ vpc = "read"
    /\ LET path == v_files[v_i].k
       IN /\ v_validated' = [v_validated EXCEPT
                                !.formatted_code = FormattedCode(v_validated,
                                                                 v_disk[FileOf(path)])]
          /\ v_trace' = Append(v_trace, Did("read", path, "ok", FALSE))
    /\ v_i' = v_i + 1
    /\ vpc' = "for"
    /\ UNCHANGED <<ide_commands, v_dirs, v_disk, v_files, temp_files, v_exc>>
    /\ UNCHANGED <<ctorVars, mainVars, fanVars, parseVars, llmVars, pipelineVars>>

\* lines 55-60: the finally clause, then the return or the exception
ValidateFinally ==
    /\ vpc = "finally"
    /\ v_disk' = Cleanup(v_validated, v_disk,
                         {FileOf(temp_files[n]) : n \in DOMAIN temp_files})
    /\ vpc' = IF v_exc = NoError THEN "returned" ELSE "raised"
    /\ UNCHANGED <<ide_commands, v_dirs, v_files, v_i, v_validated, temp_files, v_exc,
                   v_trace>>
    /\ UNCHANGED <<ctorVars, mainVars, fanVars, parseVars, llmVars, pipelineVars>>

\* a ValidationAgent and a working directory before a call
InitValidate ==
    /\ pc = "new"
    /\ LLMIdle
    /\ MainIdle
    /\ mode = "create"
    /\ Constructed
    /\ NoRunYet
    /\ FanIdle
    /\ ParseIdle
    /\ vpc = "idle"
    /\ ide_commands \in ToolConfigs
    /\ v_dirs \in {{}, {"collectors"}}
    /\ v_disk = EmptyDisk
    /\ v_files = EmptyDict
    /\ v_i = 0
    /\ v_validated = NoValidated
    /\ temp_files = << >>
    /\ v_exc = NoError
    /\ v_trace = << >>

NextValidate ==
    \/ ValidateBegin
    \/ ValidateLoopEnds
    \/ ValidateWriteFile
    \/ ValidateRunTool
    \/ ValidateReread
    \/ ValidateFinally

SpecValidate == InitValidate /\ [][NextValidate]_vars

(***************************************************************************)
(* The dashboard/alert fan-out on the event loop                            *)
(*                                                                         *)
(* asyncio.gather runs generate_dashboard_design and                       *)
(* generate_alert_suggestions as two tasks of one event loop, which runs   *)
(* one task at a time up to its next await.  Each task is in               *)
(* CachingLLM.acall with two messages and the default max_retries and      *)
(* base_delay.                                                             *)
(***************************************************************************)
\* the tasks in the order gather() creates them
TaskOrder == <<"dashboard", "alert">>

\* time.sleep(delay) keeps the loop's only thread: no task runs while one
\* task is in it
LoopFree == \A t \in Tasks : fan[t].at # "sleeping"

\* the task is created and runs to its first await: the first llm.acall
FanStart(t) ==
    /\ LoopFree
    /\ fan[t].at = "ready"
    /\ \A n \in DOMAIN TaskOrder :
         TaskOrder[n] = t => \A k \in 1..(n - 1) : fan[TaskOrder[k]].at # "ready"
    /\ fan' = [fan EXCEPT ![t].at = "awaiting"]
    /\ UNCHANGED <<loop_blocked, valVars, parseVars, ctorVars, mainVars, llmVars, pipelineVars>>

\* the awaited llm.acall returns: acall returns and the task is done
FanCallReturns(t) ==
    /\ LoopFree
    /\ fan[t].at = "awaiting"
    /\ \E text \in TaskTexts : fan' = [fan EXCEPT ![t].at = "returned", ![t].content = text]
    /\ UNCHANGED <<loop_blocked, valVars, parseVars, ctorVars, mainVars, llmVars, pipelineVars>>

\* the awaited llm.acall raises: before the last attempt the task enters
\* time.sleep(delay), on the last attempt it re-raises
FanCallFails(t) ==
    /\ LoopFree
    /\ fan[t].at = "awaiting"
    /\ IF fan[t].attempt < DefaultMaxRetries - 1
       THEN fan' = [fan EXCEPT ![t].at = "sleeping"]
       ELSE fan' = [fan EXCEPT ![t].at = "raised"]
    /\ UNCHANGED <<loop_blocked, valVars, parseVars, ctorVars, mainVars, llmVars, pipelineVars>>

\* time.sleep(delay) returns: the loop goes to the next attempt's llm.acall
FanSleepEnds(t) ==
    /\ fan[t].at = "sleeping"
    /\ loop_blocked' = loop_blocked + BackoffDelay(DefaultBaseDelay, fan[t].attempt)
    /\ fan' = [fan EXCEPT ![t].at = "awaiting", ![t].attempt = @ + 1]
    /\ UNCHANGED <<valVars, parseVars, ctorVars, mainVars, llmVars, pipelineVars>>

\* a step of task t
FanStep(t) == FanStart(t) \/ FanCallReturns(t) \/ FanCallFails(t) \/ FanSleepEnds(t)

InitFanout ==
    /\ pc = "new"
    /\ LLMIdle
    /\ MainIdle
    /\ mode \in {"create", "extend"}
    /\ Constructed
    /\ NoRunYet
    /\ ValidateIdle
    /\ FanIdle
    /\ ParseIdle

NextFanout ==
    \/ \E t \in Tasks : FanStart(t)
    \/ \E t \in Tasks : FanCallReturns(t)
    \/ \E t \in Tasks : FanCallFails(t)
    \/ \E t \in Tasks : FanSleepEnds(t)

SpecFanout == InitFanout /\ [][NextFanout]_vars /\ WF_vars(NextFanout)

(***************************************************************************)
(* _parse_coding_response on responses made of fenced blocks               *)
(***************************************************************************)
\* the longest response, in blocks
MaxBlocks == 2

\* block bodies: plain code, the entry-point marker, the test marker, both
BlockBodies ==
    { <<"x">>, <<"main">>, <<"test">>, <<"main", "\n", "test">>, <<"test", "\n", "main">> }

\* a fenced block: its annotation ("" for none), whether it carries the
\* language tag, and its body
BlockInputs ==
    [path : {"", "collectors/a.go", "exporter_test.go"}, tagged : BOOLEAN,
     body : BlockBodies]

\* the text of a block, as the fenced-block pattern reads it
RenderBlock(b) ==
    <<Fence>>
    \o (IF b.tagged THEN <<"go">> ELSE << >>)
    \o (IF b.path # "" THEN <<" ", "filepath=", b.path>> ELSE << >>)
    \o <<"\n">> \o b.body \o <<"\n", Fence, "\n">>

RECURSIVE RenderBlocks(_)
RenderBlocks(blocks) ==
    IF blocks = << >> THEN << >>
    ELSE RenderBlock(Head(blocks)) \o RenderBlocks(Tail(blocks))

\* CodingAgent._parse_coding_response on the received response
ParseCodingResponse ==
    /\ ppc = "ready"
    /\ parse_files' = parse_coding_response(RenderBlocks(parse_blocks))
    /\ ppc' = "parsed"
    /\ UNCHANGED <<parse_blocks, valVars, fanVars, ctorVars, mainVars, llmVars, pipelineVars>>

InitParse ==
    /\ pc = "new"
    /\ LLMIdle
    /\ MainIdle
    /\ mode \in {"create", "extend"}
    /\ Constructed
    /\ NoRunYet
    /\ ValidateIdle
    /\ FanIdle
    /\ ppc = "ready"
    /\ parse_blocks \in UNION {[1..n -> BlockInputs] : n \in 1..MaxBlocks}
    /\ parse_files = << >>

NextParse == ParseCodingResponse

SpecParse == InitParse /\ [][NextParse]_vars

(***************************************************************************)
(* Properties                                                              *)
(***************************************************************************)
\* the metric schema
SatisfiesSchema(metric) ==
    /\ NameMatches(metric.name)
    /\ metric.description \notin {Absent, ""}
    /\ metric.type \in {"gauge", "counter", "histogram"}

\* the research phase is over and generate_exporter has been or is being
\* invoked
PastResearch == pc \notin {"start", "research"} /\ raised_in \notin {"load", "research"}

\* C1: Code Generation is invoked only with a ResearchResult all of whose
\* metrics satisfy the metric schema; the research phase returns such a
\* result or raises, and nothing of an attempt that failed validation is
\* handed on (no research result, no coding call, no artifact).
C1_OnlyValidMetricsReachCodeGeneration ==
    /\ \A i \in DOMAIN research.metrics : SatisfiesSchema(research.metrics[i])
    /\ ~PastResearch =>
         /\ research = NoResearch
         /\ llm_calls["coding"] = 0
         /\ exporter_artifact = EmptyDict

\* C1 witness: extension mode hands two metrics to Code Generation after two
\* failed attempts
C1_Witness ==
    /\ pc = "codegen"
    /\ mode = "extend"
    /\ attempt = 2
    /\ Len(research.metrics) = 2

\* C2: the research agent is invoked at most 3 times; the loop goes on only
\* after a failed attempt and returns at the first attempt that validates;
\* after 3 failed attempts the error that leaves the loop is the failure of
\* the third attempt, unmodified.
C2_ResearchRetryBound ==
    /\ llm_calls["research"] <= 3
    /\ \A i \in DOMAIN failures : failures[i].exc = "ValueError"
    /\ pc = "research" => llm_calls["research"] = attempt /\ Len(failures) = attempt
    /\ PastResearch => llm_calls["research"] = attempt + 1 /\ sleeps = attempt
    /\ (pc = "raised" /\ raised_in = "research" /\ Len(failures) = 3) =>
         /\ error = failures[3]
         /\ llm_calls["research"] = 3
         /\ sleeps = 2
    /\ (pc = "raised" /\ raised_in = "research" /\ error.exc = "ValueError"
          /\ mode = "extend") => Len(failures) = 3

\* C2 witness: three attempts failed validation, with different failures
C2_Witness ==
    /\ pc = "raised"
    /\ raised_in = "research"
    /\ Len(failures) = 3
    /\ failures[1].rule = "name"
    /\ failures[2].rule = "description"
    /\ failures[3].rule = "type"

\* C3: while every validation yields errors the Fix Loop makes exactly
\* max_retries iterations (max_retries fix calls, max_retries re-validations)
\* and then raises a ValidationError; with errors left it never goes on to
\* test generation, writing or testing.
C3_FixLoopTerminates ==
    /\ retries <= max_retries
    /\ llm_calls["fix"] <= max_retries
    /\ (pc = "raised" /\ error.exc = "ValidationError") =>
         /\ raised_in = "fix"
         /\ retries = max_retries
         /\ llm_calls["fix"] = max_retries
         /\ validated.validation_errors # << >>
    /\ (pc = "fix_loop" /\ validated.validation_errors # << >> /\ retries = max_retries) =>
         /\ ENABLED FixLoopFails
         /\ ~ENABLED FixCodeErrors
         /\ ~ENABLED GenerateTests
    /\ validated.validation_errors # << >> =>
         /\ pc \in {"fix_loop", "raised"}
         /\ llm_calls["tests"] = 0
         /\ test_runs = 0

\* C3 witness: the loop ran out of retries and raised
C3_Witness ==
    /\ pc = "raised"
    /\ error.exc = "ValidationError"
    /\ retries = max_retries
    /\ retries > 0

\* C4: a test command that exits non-zero does not abort the run: the test
\* phase itself never raises, after it nothing but a failing LLM call ends
\* the run, and the bundle returned is complete and reports passed = FALSE.
C4_TestFailureDoesNotAbort ==
    /\ raised_in # "test"
    /\ (test_runs > 0 /\ ~test_result.passed /\ pc = "raised") =>
         /\ error.exc = LLMFailure
         /\ raised_in \in {"diagnosis", "fanout"}
    /\ pc = "returned" =>
         /\ test_runs = 1
         /\ result.research = research
         /\ result.code = validated
         /\ result.test_result = test_result
         /\ result.dashboard = task_result["dashboard"]
         /\ result.alerts = task_result["alert"]
         /\ llm_calls["dashboard"] = 1
         /\ llm_calls["alert"] = 1

\* C4 witness: the bundle is returned after the test command exited non-zero
C4_Witness ==
    /\ pc = "returned"
    /\ result.test_result = [passed |-> FALSE, output |-> "stdout+stderr"]
    /\ llm_calls["diagnosis"] = 1

\* C5 (as claimed): once every command of Environment Setup has been
\* launched and has exited, whatever the exit codes, the phase has not
\* raised and the run goes on to validation.
C5_SetupSurvivesExitCodes == tidy_rc # -1 => pc # "raised"

\* some command of Environment Setup could not be launched
LaunchFailed ==
    \/ init_rc = -1
    \/ \E d \in go_deps : dep[d] = "launch_failed"
    \/ tidy_rc = -1

\* C6 (as claimed): Environment Setup raises only when launching a command
\* failed, and only CodeGenerationError.
C6_SetupRaisesOnlyCodeGenerationError ==
    (pc = "raised" /\ raised_in = "setup") =>
        /\ error.exc = "CodeGenerationError"
        /\ LaunchFailed

\* C7: neither dashboards/dashboard.txt nor alerts/alerts.txt is written
\* before both fan-out tasks have completed.
C7_BarrierBeforePersisting ==
    ({"dashboards/dashboard.txt", "alerts/alerts.txt"} \cap DOMAIN disk # {}) =>
        \A t \in Tasks : task[t] = "done"

\* C7 witness: the dashboard file is written after the alert task finished
\* first and the dashboard task last
C7_Witness ==
    /\ "dashboards/dashboard.txt" \in DOMAIN disk
    /\ "alerts/alerts.txt" \notin DOMAIN disk
    /\ completed = <<"alert", "dashboard">>

\* C8: whichever task completes first, the bundle returned holds the
\* dashboard task's output in its dashboard slot and the alert task's output
\* in its alerts slot, and both tasks have completed.
C8_ResultsNotSwapped ==
    pc \in {"save_dashboard", "save_alerts", "returned"} =>
        /\ \A t \in Tasks : task[t] = "done"
        /\ gathered = task_result
        /\ pc = "returned" =>
             /\ result.dashboard = task_result["dashboard"]
             /\ result.alerts = task_result["alert"]
             /\ disk["dashboards/dashboard.txt"] = <<task_result["dashboard"]>>
             /\ disk["alerts/alerts.txt"] = <<task_result["alert"]>>

\* C8 witness: the alert task completed first, with a different text
C8_Witness ==
    /\ pc = "returned"
    /\ completed = <<"alert", "dashboard">>
    /\ result.dashboard = "text1"
    /\ result.alerts = "text2"

\* generate_exporter has been invoked and is over
CodegenOver ==
    \/ pc \in {"setup_init", "setup_launch", "setup_deps"}
    \/ pc = "raised" /\ raised_in \in {"codegen", "setup"}

HasNewMetric == \E i \in DOMAIN research.metrics : research.metrics[i].status = "new"

\* C9: in extension mode with no metric of status new, Code Generation
\* issues no LLM call and returns existing_code unchanged.
C9_ExtendWithoutNewMetricsIsNoOp ==
    (CodegenOver /\ mode = "extend" /\ ~HasNewMetric) =>
        /\ llm_calls["coding"] = 0
        /\ raised_in # "codegen"
        /\ DictEq(exporter_artifact, existing_code)
        /\ research.existing_code = existing_code

\* C9 witness: extension mode, the only metric is an existing one
C9_Witness ==
    /\ pc = "setup_init"
    /\ mode = "extend"
    /\ Len(research.metrics) = 1
    /\ research.metrics[1].status = "existing"

\* the file mapping parsed from the code generation response
Parsed == parse_coding_response(coding_content)

\* C10: on the extend path with a new metric the returned mapping has the
\* keys of existing_code and of the parsed response, parsed paths hold the
\* parsed content, the other paths keep theirs, and research.existing_code
\* is as it was.
C10_ExtendMergesOverCopy ==
    (CodegenOver /\ raised_in # "codegen" /\ mode = "extend" /\ HasNewMetric) =>
        /\ DictKeys(exporter_artifact) = DictKeys(existing_code) \cup DictKeys(Parsed)
        /\ \A path \in DictKeys(Parsed) :
             DictGet(exporter_artifact, path) = DictGet(Parsed, path)
        /\ \A path \in DictKeys(existing_code) \ DictKeys(Parsed) :
             DictGet(exporter_artifact, path) = DictGet(existing_code, path)
        /\ research.existing_code = existing_code

\* C10 witness: the response rewrites one existing file and adds a new one
C10_Witness ==
    /\ pc = "setup_init"
    /\ mode = "extend"
    /\ HasNewMetric
    /\ DictKeys(Parsed) \cap DictKeys(existing_code) # {}
    /\ DictKeys(Parsed) \ DictKeys(existing_code) # {}
    /\ DictKeys(existing_code) \ DictKeys(Parsed) # {}

\* the rules validate_metrics reports
SchemaRules == {"name", "description", "type"}

\* C11 (as claimed): for every LLM response text the research agent
\* returns without raising: an error that leaves the research phase, or that
\* a retry loop catches, is a failed LLM call or a schema violation found by
\* validate_metrics, never an exception of the agent's own parsing.
C11_ResearchAgentNeverRaises ==
    /\ (pc = "raised" /\ raised_in = "research" /\ error.exc # LLMFailure) =>
           error.rule \in SchemaRules
    /\ \A i \in DOMAIN failures : failures[i].rule \in SchemaRules

\* test generation has returned
TestsGenerated == pc \in {"write", "test", "diagnose", "gather", "awaiting",
                          "save_dashboard", "save_alerts", "returned"}
                  \/ (pc = "raised" /\ raised_in \in {"write", "diagnosis", "fanout"})

\* the fallback rule: the parsed mapping when it is not empty, else the one
\* file name holding the whole response
ParsedOrSingleFile(artifact, content, name) ==
    /\ artifact # EmptyDict
    /\ parse_coding_response(content) # EmptyDict =>
         artifact = parse_coding_response(content)
    /\ parse_coding_response(content) = EmptyDict =>
         /\ DictKeys(artifact) = {name}
         /\ Len(artifact) = 1
         /\ DictGet(artifact, name) = content

\* C12: the create path and generate_tests never return an empty artifact:
\* an empty parse gives exactly one file with the whole raw response, named
\* exporter.go on the create path and exporter_test.go for generate_tests; a
\* non-empty parse is returned as it is.
C12_FallbackSingleFile ==
    /\ (mode = "create" /\ tests_content = NoContent) =>
         ParsedOrSingleFile(exporter_artifact, coding_content, "exporter.go")
    /\ TestsGenerated =>
         ParsedOrSingleFile(test_artifact, tests_content, "exporter_test.go")

\* C12 witness: test generation fell back to exporter_test.go after the
\* create path had fallen back to exporter.go
C12_Witness ==
    /\ mode = "create"
    /\ pc = "write"
    /\ parse_coding_response(coding_content) = EmptyDict
    /\ parse_coding_response(tests_content) = EmptyDict
    /\ DictGet(exporter_artifact, "exporter_test.go") = tests_content
    /\ tests_content = <<"x", "y">>

\* the failure err reports some metric of a research response and carries
\* that metric's name
NamesOffendingMetric(err) ==
    \E resp \in ResearchResponses : \E j \in DOMAIN resp.metrics :
        /\ MetricError(resp.metrics[j]) = err
        /\ err.arg = resp.metrics[j].name

\* C13 (as claimed): a metric without description or with a type outside
\* gauge, counter, histogram makes validate_metrics fail, and the failure
\* message identifies the offending metric by its name.
C13_FailureNamesMetric ==
    \A i \in DOMAIN failures :
        failures[i].rule \in {"description", "type"} => NamesOffendingMetric(failures[i])

\* C14 (as claimed): a metric-schema violation is reported as a
\* ValidationError of the repository's exception hierarchy, and that class is
\* what reaches the caller when the research retry budget is exhausted.
C14_SchemaViolationIsValidationError ==
    /\ \A i \in DOMAIN failures :
         failures[i].rule \in SchemaRules => failures[i].exc = "ValidationError"
    /\ (pc = "raised" /\ raised_in = "research" /\ error.rule \in SchemaRules) =>
         error.exc = "ValidationError"

\* the last validate_code call has returned and nothing has touched the
\* disk since
ValidationReturned ==
    \/ pc = "fix_loop"
    \/ pc = "raised" /\ raised_in = "fix" /\ error.exc = "ValidationError"

\* C15: when validate_code ends with a recorded error, every file it wrote
\* in that call is gone; when it ends with none, every file it wrote is
\* there, holding the content given or what the formatter made of it.
C15_CleanupOnlyOnFailure ==
    ValidationReturned =>
        /\ validated.validation_errors # << >> =>
             \A path \in DictKeys(validated.files) : FileOf(path) \notin DOMAIN disk
        /\ validated.validation_errors = << >> =>
             \A path \in DictKeys(validated.files) :
                 /\ FileOf(path) \in DOMAIN disk
                 /\ disk[FileOf(path)] \in {DictGet(validated.files, path),
                                    Reformat(DictGet(validated.files, path))}

\* C15 witness: a re-validation wrote exporter.go, the formatter rewrote it,
\* no error was recorded and the file is there, after an earlier validation
\* that recorded errors
C15_Witness ==
    /\ pc = "fix_loop"
    /\ retries = 1
    /\ validated.validation_errors = << >>
    /\ DictKeys(validated.files) = {"exporter.go"}
    /\ disk = [path \in {"exporter.go"} |-> Reformat(DictGet(validated.files, "exporter.go"))]

\* C15 second witness: a validation that recorded errors left none of the
\* two files it wrote
C15_WitnessCleaned ==
    /\ pc = "fix_loop"
    /\ retries = 0
    /\ Len(validated.files) = 2
    /\ validated.validation_errors # << >>
    /\ disk = EmptyDisk

\* the test phase, diagnosis included, is over
PastTestPhase ==
    \/ pc \in {"gather", "awaiting", "save_dashboard", "save_alerts", "returned"}
    \/ pc = "raised" /\ raised_in = "fanout"

\* C16: the test command runs exactly once per run; a failed run is followed
\* by exactly one diagnostic LLM call and a passed run by none; the bundle
\* returned holds the result of that one test run, which the diagnosis
\* leaves as it is.
C16_OneTestRunOneDiagnosis ==
    /\ test_runs <= 1
    /\ llm_calls["diagnosis"] <= 1
    /\ llm_calls["diagnosis"] = 1 => test_runs = 1 /\ ~test_result.passed
    /\ pc = "diagnose" => test_runs = 1 /\ ~test_result.passed /\ llm_calls["diagnosis"] = 0
    /\ PastTestPhase =>
         /\ test_runs = 1
         /\ llm_calls["diagnosis"] = IF test_result.passed THEN 0 ELSE 1
         /\ test_result \in {run_tests(outcome) : outcome \in TestOutcomes}
    /\ pc = "returned" => result.test_result = test_result

\* C16 witness: the bundle returned reports the failed run of a test command
\* that did not complete, after one diagnosis
C16_Witness ==
    /\ pc = "returned"
    /\ test_runs = 1
    /\ llm_calls["diagnosis"] = 1
    /\ result.test_result = run_tests("exception")

\* Environment Setup has been entered
SetupStarted == pc \in {"setup_launch", "setup_deps"} \/ init_rc # -1 \/ raised_in = "setup"

\* every command of Environment Setup was launched and has exited
SetupCommandsDone == init_rc # -1 /\ AllDepsExited /\ tidy_rc # -1

\* C17 (as claimed): the phases start in the order Research, Code
\* Generation, Environment Setup, Validation and so on; none starts before
\* its predecessor has completed, a phase that raises keeps the later ones
\* from starting, and on the success path none is skipped: a completed
\* phase is followed by the next one.
C17_PhasesInOrder ==
    /\ (llm_calls["coding"] > 0 \/ pc = "codegen" \/ raised_in = "codegen") =>
         /\ PastResearch
         /\ llm_calls["research"] > 0
    /\ SetupStarted =>
         /\ CodegenOver
         /\ raised_in # "codegen"
    /\ raised_in \in {"load", "research", "codegen"} => ~SetupStarted
    /\ raised_in \in {"load", "research"} => llm_calls["coding"] = 0
    /\ (validated # NoValidated \/ pc = "validate") => SetupCommandsDone
    /\ SetupCommandsDone => pc = "validate"

\* C18 (as claimed): when every underlying attempt of a call fails, acall
\* makes exactly max_retries attempts on the underlying LLM, never more, and
\* then fails with an LLMProviderError.
C18_ExhaustedRetriesRaiseProviderError ==
    /\ underlying_calls <= kw_max_retries
    /\ response.kind = "raised" =>
         /\ underlying_calls = kw_max_retries
         /\ response.content = "LLMProviderError"

\* C19: a multi-message call whose underlying LLM fails k times, k below
\* max_retries, and then succeeds returns that response after exactly k+1
\* underlying calls and k sleeps; the first delay is base_delay and each
\* further delay is twice the one before (base_delay * 2^i after attempt i).
C19_RetryThenSucceed ==
    /\ Len(delays) = llm_attempt
    /\ \A i \in DOMAIN delays :
         delays[i] = IF i = 1 THEN base_delay ELSE 2 * delays[i - 1]
    /\ (~SingleMessage /\ response.kind = "returned" /\ kw_max_retries > 0) =>
         /\ response.content \in Texts
         /\ Len(delays) < kw_max_retries
         /\ underlying_calls = Len(delays) + 1

\* C19 witness: two failures, then success on the third attempt, with the
\* default base delay
C19_Witness ==
    /\ Len(messages) = 2
    /\ response.kind = "returned"
    /\ underlying_calls = 3
    /\ delays = <<DefaultBaseDelay, 2 * DefaultBaseDelay>>
    /\ kw_max_retries = DefaultMaxRetries

\* C20 (as claimed): every single-message call is served through the cache
\* and returns the cached result for its content, and the underlying model
\* is invoked at most once per distinct content.
C20_SingleMessageServedThroughCache ==
    /\ \A c \in Contents : invocations[c] <= 1
    /\ (SingleMessage /\ response.kind # "none") =>
         /\ response.kind = "returned"
         /\ response.via = "cache"
         /\ response.content = stored[messages[1]]

\* C20 (amended): the cache is keyed by the exact message content and holds
\* what llm.predict returned for it; a single-message call whose content is
\* cached, or for which llm.predict succeeds, returns that entry without
\* touching llm.acall; llm.predict returns at most once per content (the
\* contents are fewer than the cache holds); a call never gets the entry of
\* another content; a call whose llm.predict fails caches nothing and is
\* answered by the retry loop.
C20_CacheKeyedByContent ==
    /\ \A c \in Contents :
         /\ predict_ok[c] <= 1
         /\ Cached(c) <=> predict_ok[c] = 1
         /\ Cached(c) => CacheValue(c) = stored[c]
    /\ (SingleMessage /\ response.via = "cache") =>
         /\ response.kind = "returned"
         /\ response.content = stored[messages[1]]
         /\ underlying_calls = 0
    /\ (SingleMessage /\ lpc = "idle" /\ response.via = "llm") =>
         /\ ~Cached(messages[1])
         /\ invocations[messages[1]] > predict_ok[messages[1]]

\* C20 witness: two contents are cached with different texts and a third
\* call was a hit
C20_Witness ==
    /\ lpc = "idle"
    /\ acalls = 3
    /\ Len(lru) = 2
    /\ lru[1].v # lru[2].v
    /\ SingleMessage
    /\ response.via = "cache"
    /\ invocations = [c \in Contents |-> 1]

\* the entry the configuration of a role is to come from: the role's own
\* entry, else the entry named default
HasClaimedEntry(role, llm_configs) ==
    role \in DictKeys(llm_configs) \/ "default" \in DictKeys(llm_configs)

ClaimedEntry(role, llm_configs) ==
    IF role \in DictKeys(llm_configs) THEN DictGet(llm_configs, role)
    ELSE DictGet(llm_configs, "default")

\* llm is a CachingLLM around a client made with what entry specifies
WrapsClientOf(llm, entry) ==
    /\ llm.class = "CachingLLM"
    /\ llm.llm.class \in {"ChatOpenAI", "ChatAnthropic"}
    /\ "provider" \in DictKeys(entry) => llm.llm.provider = DictGet(entry, "provider")
    /\ "model" \in DictKeys(entry) => llm.llm.model = DictGet(entry, "model")
    /\ llm.llm.temperature = IF "temperature" \in DictKeys(entry)
                             THEN DictGet(entry, "temperature") ELSE 0

\* C21: get_llm selects the configuration by role: a role with an entry in
\* the llm settings gets a client made with that entry's provider, model
\* and temperature, any other role (none given, or not configured) one made
\* with the entry named default; the temperature is 0.0 when the entry has
\* none; what get_llm returns is a CachingLLM around the client created.
C21_ConfigurationByRole ==
    /\ \A a \in Roles :
         agent_llm[a] # NoLLM =>
             /\ agent_llm[a].class = "CachingLLM"
             /\ agent_llm[a].llm # NoClient
             /\ HasClaimedEntry(a, llm_settings) =>
                  WrapsClientOf(agent_llm[a], ClaimedEntry(a, llm_settings))
    /\ \A role \in Roles \cup {NoRole} :
         LET r == get_llm(role, llm_settings, env_keys)
         IN r.exc = NoError =>
              /\ r.llm.class = "CachingLLM"
              /\ r.llm.llm # NoClient
              /\ HasClaimedEntry(role, llm_settings) =>
                   WrapsClientOf(r.llm, ClaimedEntry(role, llm_settings))

\* C21 witness: the research agent got the client of its own entry, the
\* coding agent the one of the default entry with temperature 0
C21_Witness ==
    /\ pc = "start"
    /\ agent_llm["research"].llm = Client("ChatAnthropic", "claude", "claude-instant-1", 2, 0)
    /\ agent_llm["coding"].llm = Client("ChatOpenAI", "gpt-turbo", "gpt-3.5-turbo", 0, 60)
    /\ "coding" \notin DictKeys(llm_settings)

\* the construction of the Orchestrator succeeded
ConstructionSucceeded == pc # "new" /\ raised_in # "init"

\* C22: an Orchestrator in extend mode without an exporter path is not
\* constructed: the construction fails, and no phase and no LLM call of a
\* run starts in extend mode with a missing path.
C22_ExtendRequiresPath ==
    /\ (ConstructionSucceeded /\ mode = "extend") => exporter_path \notin {NoPath, ""}
    /\ (mode = "extend" /\ exporter_path \in {NoPath, ""}) =>
         /\ pc \in {"new", "raised"}
         /\ pc = "raised" => raised_in = "init"
         /\ \A c \in Callers : llm_calls[c] = 0
         /\ dirs = {}
         /\ research = NoResearch

\* C22 witness: the construction in extend mode with an empty path failed
\* with the ValueError of the constructor
C22_Witness ==
    /\ pc = "raised"
    /\ raised_in = "init"
    /\ error.exc = "ValueError"
    /\ mode = "extend"
    /\ exporter_path = ""
    /\ agent_llm["alert"] # NoLLM

ValidationFailedBefore ==
    \/ validated.validation_errors # << >>
    \/ retries > 0
    \/ raised_in \in {"validation", "fix"}

\* the write step has completed
WriteDone ==
    \/ pc \in {"test", "diagnose", "gather", "awaiting", "save_dashboard", "save_alerts",
               "returned"}
    \/ pc = "raised" /\ raised_in \in {"diagnosis", "fanout"}

PastFixLoop ==
    \/ pc \in {"write", "test", "diagnose", "gather", "awaiting", "save_dashboard",
               "save_alerts", "returned"}
    \/ raised_in \in {"testgen", "write", "diagnosis", "fanout"}
    \/ llm_calls["tests"] > 0
    \/ test_runs > 0
    \/ llm_calls["dashboard"] > 0
    \/ llm_calls["alert"] > 0

\* C25: test generation, the write step, the Test Phase and the dashboard
\* and alert generation are reached only with a validated artifact whose
\* validation_errors is empty, and every bundle returned has
\* code.validation_errors empty.
C25_LaterPhasesOnlyWithCleanArtifact ==
    /\ PastFixLoop =>
         /\ validated # NoValidated
         /\ validated.validation_errors = << >>
    /\ pc = "returned" =>
         /\ result.code # NoValidated
         /\ result.code.validation_errors = << >>

\* C25 witness: a bundle is returned after two fix iterations
C25_Witness ==
    /\ pc = "returned"
    /\ retries = 2
    /\ llm_calls["fix"] = 2
    /\ result.code.validation_errors = << >>
    /\ result.code.files = <<[k |-> "exporter.go", v |-> <<"x", "y">>]>>

\* C26: each Fix Loop iteration issues one LLM call, validates one new
\* artifact made of the single file exporter.go holding the returned text,
\* replaces validated with the result and adds one to the counter; the loop
\* makes no iteration while validated is clean (none at all after a clean
\* initial validation, none after the first clean re-validation), and the
\* fix LLM calls never exceed max_retries.
C26_FixLoopIteration ==
    /\ [](/\ llm_calls["fix"] <= max_retries
          /\ raised_in # "fix" => llm_calls["fix"] = retries
          /\ raised_in = "fix" => llm_calls["fix"] \in {retries, retries + 1}
          /\ retries > 0 =>
               /\ Len(validated.files) = 1
               /\ validated.files[1].k = "exporter.go"
               /\ validated.files[1].v \in CodingResponses
          /\ (pc = "fix_loop" /\ validated.validation_errors = << >>) =>
               ~ENABLED FixCodeErrors)
    /\ [][retries' # retries =>
            /\ retries' = retries + 1
            /\ llm_calls'["fix"] = llm_calls["fix"] + 1
            /\ validated.validation_errors # << >>
            /\ retries < max_retries
            /\ validated'.files[1].v \in CodingResponses
            /\ validated'.files = <<[k |-> "exporter.go", v |-> validated'.files[1].v]>>]_vars
    /\ [][llm_calls'["fix"] # llm_calls["fix"] =>
            /\ llm_calls'["fix"] = llm_calls["fix"] + 1
            /\ retries' = retries + 1 \/ (pc' = "raised" /\ raised_in' = "fix")]_vars
    /\ [][(validated' # validated /\ pc = "fix_loop") => retries' = retries + 1]_vars

\* C26 witness: two iterations, the second one clean, after an initial
\* validation of two files
C26_Witness ==
    /\ pc = "fix_loop"
    /\ retries = 2
    /\ llm_calls["fix"] = 2
    /\ Len(exporter_artifact) = 2
    /\ validated.validation_errors = << >>
    /\ validated.files = <<[k |-> "exporter.go", v |-> <<"x", "y">>]>>

\* C27 (as claimed): after the write step of a run whose Fix Loop made at
\* least one iteration and ended clean, every path of the validated artifact
\* holds on disk the validated (fixed) content, as given or as the formatter
\* rewrote it, not the content generated before the fix.
C27_DiskHoldsFixedSource ==
    (WriteDone /\ retries >= 1) =>
        \A path \in DictKeys(validated.files) :
            /\ FileOf(path) \in DOMAIN disk
            /\ disk[FileOf(path)] \in {DictGet(validated.files, path),
                                       Reformat(DictGet(validated.files, path))}

\* C28 (as claimed): a diagnostic LLM call that fails does not abort the
\* run.
C28_DiagnosisFailureDoesNotAbort == ~(pc = "raised" /\ raised_in = "diagnosis")

\* the LLM invocations the run has made through its agents
LLMInvocations ==
    llm_calls["research"] + llm_calls["coding"] + llm_calls["fix"] + llm_calls["tests"]
        + llm_calls["diagnosis"] + llm_calls["dashboard"] + llm_calls["alert"]

\* C29: provided every call the run waits for returns or raises, every run
\* of run_agents eventually returns a bundle or raises, and its LLM
\* invocations never exceed 3 (research) + 1 (code generation) + max_retries
\* (fix) + 1 (test generation) + 1 (diagnosis) + 2 (dashboard and alerts),
\* each caller staying within its own share.
C29_TerminatesWithBoundedLLMCalls ==
    /\ [](/\ llm_calls["research"] <= ResearchMaxRetries
          /\ llm_calls["coding"] <= 1
          /\ llm_calls["fix"] <= max_retries
          /\ llm_calls["tests"] <= 1
          /\ llm_calls["diagnosis"] <= 1
          /\ llm_calls["dashboard"] <= 1
          /\ llm_calls["alert"] <= 1
          /\ LLMInvocations <= ResearchMaxRetries + 1 + max_retries + 1 + 1 + 2)
    /\ <>(pc \in {"returned", "raised"})
    /\ [][(pc \in {"returned", "raised"}) => pc' = pc]_vars

\* C29 witness: a run returns after a code generation call, max_retries fix
\* calls, the test generation, a diagnosis and both fan-out calls
C29_Witness ==
    /\ pc = "returned"
    /\ max_retries >= 1
    /\ llm_calls = [c \in Callers |-> IF c = "fix" THEN max_retries ELSE 1]

\* C30 (as claimed): the retry policy is the same in both research modes. In
\* extension mode a ValueError leaves the research phase only as the failure
\* of the third attempt, after three agent calls and two sleeps, whether the
\* attempt failed in validate_metrics or in the agent call itself; the same
\* is claimed of fresh mode.
C30_SameRetryPolicyInBothModes ==
    (pc = "raised" /\ raised_in = "research" /\ error.exc = "ValueError") =>
        /\ llm_calls["research"] = ResearchMaxRetries
        /\ sleeps = ResearchMaxRetries - 1

\* what validate_code does with one file, in order
FileSteps == <<"write">> \o Tools \o <<"read">>

\* C31: validate_code takes the files one at a time in the order of the
\* mapping, and on each file does write, format, vet, lint, security scan and
\* re-read in that order; the four tools are invoked on every file whatever
\* the earlier tools and files gave (only a write that fails ends the call).
C31_FilesAndToolsInOrder ==
    /\ \A n \in DOMAIN v_trace :
         /\ v_trace[n].op = FileSteps[((n - 1) % Len(FileSteps)) + 1]
         /\ v_trace[n].file = v_files[((n - 1) \div Len(FileSteps)) + 1].k
         /\ v_trace[n].kind = "FileNotFoundError" =>
              /\ n = Len(v_trace)
              /\ vpc \in {"finally", "raised"}
    /\ vpc = "returned" => Len(v_trace) = Len(FileSteps) * Len(v_files)
    /\ vpc = "raised" => v_trace[Len(v_trace)].kind = "FileNotFoundError"

\* C31 witness: two files validated; on the first the formatter timed out
\* and vet failed, on the second lint could not be launched
C31_Witness ==
    /\ vpc = "returned"
    /\ Len(v_files) = 2
    /\ Len(v_trace) = 12
    /\ v_trace[2].kind = "timeout"
    /\ v_trace[3].kind = "nonzero"
    /\ v_trace[10].kind = "launch_error"

\* the ways a tool fails on a file
FailureKinds == {"nonzero", "timeout", "launch_error", "unconfigured"}

\* the place of an entry in file order and, within a file, in tool order
Rank(e) ==
    (CHOOSE i \in DOMAIN v_files : v_files[i].k = e.file) * Len(Tools) + ToolIndex(e.tool)

\* C32: validation_errors holds an entry for file f and tool t, t one of
\* format, vet and security, exactly when t failed on f (non-zero exit,
\* timeout, launch failure or tool not configured); a timeout or a launch
\* failure never ends the call, the remaining tools and files are still
\* validated; and the entries stand in file order and, within a file, in
\* tool order.
C32_FailuresAreRecorded ==
    LET errors == v_validated.validation_errors
    IN /\ \A n \in DOMAIN v_trace :
            v_trace[n].op \in {"format", "vet", "security"} =>
                ((\E m \in DOMAIN errors :
                      errors[m] = ValidationEntry(v_trace[n].op, v_trace[n].file))
                   <=> v_trace[n].kind \in FailureKinds)
       /\ \A m \in DOMAIN errors :
            \E n \in DOMAIN v_trace :
                v_trace[n].op = errors[m].tool /\ v_trace[n].file = errors[m].file
       /\ \A m \in 1..(Len(errors) - 1) : Rank(errors[m]) < Rank(errors[m + 1])
       /\ (\E n \in DOMAIN v_trace : v_trace[n].kind \in {"timeout", "launch_error"}) =>
            /\ vpc = "returned" => Len(v_trace) = Len(FileSteps) * Len(v_files)
            /\ vpc = "raised" => v_trace[Len(v_trace)].op = "write"

\* C32 witness: a call returned after the formatter timed out on the first
\* file, vet could not be launched on the second, and the security tool is
\* not configured
C32_Witness ==
    /\ vpc = "returned"
    /\ Len(v_files) = 2
    /\ v_trace[2].kind = "timeout"
    /\ v_trace[9].kind = "launch_error"
    /\ v_trace[5].kind = "unconfigured"
    /\ v_validated.validation_errors =
         << ValidationEntry("format", v_files[1].k), ValidationEntry("security", v_files[1].k),
            ValidationEntry("vet", v_files[2].k), ValidationEntry("security", v_files[2].k) >>

HasLintEntry ==
    \E m \in DOMAIN v_validated.validation_errors :
        v_validated.validation_errors[m].tool = "lint"

\* C33: a lint invocation adds its entry exactly when it returned a text,
\* whether lint exited with 0 or not; so lint output alone leaves the artifact
\* with errors: the Fix Loop's condition holds for it while attempts remain,
\* the files written are removed when the call ends, and once the attempts
\* are used up the condition of the fatal ValidationError holds.
C33_LintOutputAloneIsAnError ==
    /\ \A n \in DOMAIN v_trace :
         v_trace[n].op = "lint" =>
             ((\E m \in DOMAIN v_validated.validation_errors :
                   v_validated.validation_errors[m] = ValidationEntry("lint", v_trace[n].file))
                <=> v_trace[n].output)
    /\ (vpc = "returned" /\ HasLintEntry) =>
         /\ \A n \in 0..(max_retries - 1) : FixLoopContinues(v_validated, n)
         /\ ~FixLoopContinues(v_validated, max_retries)
         /\ v_validated.validation_errors # << >>
         /\ \A n \in DOMAIN temp_files : FileOf(temp_files[n]) \notin DOMAIN v_disk

\* C33 witness: lint printed on the first file and exited with 0, exited
\* with another code on the second without printing, and every other tool
\* succeeded: the only entry is the first file's lint entry
C33_Witness ==
    /\ vpc = "returned"
    /\ Len(v_files) = 2
    /\ v_trace[4] = Did("lint", v_files[1].k, "exit0", TRUE)
    /\ v_trace[10] = Did("lint", v_files[2].k, "nonzero", FALSE)
    /\ v_validated.validation_errors = <<ValidationEntry("lint", v_files[1].k)>>
    /\ v_disk = EmptyDisk

LastFile == v_files[Len(v_files)]

\* C34: when validate_code returns for an artifact with at least one file,
\* formatted_code is what the last file processed holds on disk after its
\* tools ran (the text written, or what the formatter made of it), and not
\* an earlier file's content; for an artifact without files formatted_code
\* stays unset and validation_errors stays empty.
C34_FormattedCodeIsLastFile ==
    /\ (vpc = "finally" /\ v_exc = NoError /\ Len(v_files) >= 1) =>
         v_validated.formatted_code = v_disk[FileOf(LastFile.k)]
    /\ (vpc = "returned" /\ Len(v_files) >= 1) =>
         /\ v_validated.formatted_code \in {LastFile.v, Reformat(LastFile.v)}
         /\ \A i \in 1..(Len(v_files) - 1) :
              {v_files[i].v, Reformat(v_files[i].v)} \cap {LastFile.v, Reformat(LastFile.v)} = {}
                  => v_validated.formatted_code \notin {v_files[i].v, Reformat(v_files[i].v)}
    /\ (vpc = "returned" /\ Len(v_files) = 0) =>
         /\ v_validated.formatted_code = NoContent
         /\ v_validated.validation_errors = << >>

\* C34 witness: two files validated without errors, the formatter rewrote
\* both; formatted_code is the rewritten second file
C34_Witness ==
    /\ vpc = "returned"
    /\ Len(v_files) = 2
    /\ v_validated.validation_errors = << >>
    /\ v_disk[FileOf(v_files[1].k)] = Reformat(v_files[1].v)
    /\ v_disk[FileOf(v_files[2].k)] = Reformat(v_files[2].v)
    /\ v_validated.formatted_code = Reformat(v_files[2].v)

\* C35: in Environment Setup the module-init command has completed before
\* any dependency fetch is started, the fetches complete in any order, and
\* the tidy command runs only after every one of the fetches has completed.
C35_SetupBarrier ==
    /\ []((\E d \in go_deps : dep[d] # "pending") => init_rc \in ExitCodes)
    /\ [](tidy_rc \in ExitCodes => /\ init_rc \in ExitCodes
                                   /\ \A d \in go_deps : dep[d] \in {"exit0", "exit1"})
    /\ [][(tidy_rc' # tidy_rc \/ (pc = "setup_deps" /\ pc' # pc)) =>
            \A d \in go_deps : dep[d] \in {"exit0", "exit1"}]_vars
    /\ [][\A d \in go_deps : dep'[d] # dep[d] =>
            (init_rc \in ExitCodes /\ tidy_rc = -1 /\ tidy_rc' = -1)]_vars

\* C35 witness: tidy has run after all six fetches completed, the first and
\* the last of them with a failure
C35_Witness ==
    /\ tidy_rc = 0
    /\ init_rc = 1
    /\ dep[1] = "exit1"
    /\ dep[6] = "exit1"
    /\ \A d \in 2..5 : dep[d] = "exit0"

\* C36 (as claimed): the Orchestrator's write of the artifact files begins
\* only after the test command has finished.
C36_TestsBeforeWrite == WriteDone => test_runs > 0

\* the files the Orchestrator writes after the Test Phase
LateFiles == {"dashboards/dashboard.txt", "alerts/alerts.txt"}

ArtifactOnDisk == \A path \in DictKeys(exporter_artifact) : FileOf(path) \in DOMAIN disk

\* C36 (amended): the Orchestrator's write of the artifact files has
\* completed before the test command starts; once the test command has run,
\* only the dashboard and alert files are written.
C36_WriteBeforeTests ==
    /\ [](test_runs > 0 => (WriteDone /\ ArtifactOnDisk))
    /\ [][test_runs' # test_runs => (pc = "test" /\ ArtifactOnDisk)]_vars
    /\ [][(test_runs > 0 /\ disk' # disk) =>
            /\ DOMAIN disk' \subseteq DOMAIN disk \cup LateFiles
            /\ \A q \in DOMAIN disk \ LateFiles : q \in DOMAIN disk' /\ disk'[q] = disk[q]]_vars

\* C36 witness: a run returned; the test command ran once on the artifact
\* written before it, and the dashboard and alert files came after
C36_Witness ==
    /\ pc = "returned"
    /\ test_runs = 1
    /\ MainPath \in DOMAIN disk
    /\ ArtifactOnDisk
    /\ LateFiles \subseteq DOMAIN disk

\* C37: a research response that is a JSON object without metrics gives a
\* ResearchResult with no metric, which validate_metrics accepts; at any
\* attempt of a fresh run such a response takes the run to Code Generation
\* with the empty metric list, and the step that does so makes one agent
\* call, no retry and no sleep, and puts no placeholder metric in.
C37_EmptyMetricsPassValidation ==
    /\ [](/\ research_system(ObjectResponse(<< >>)) = Returned(ResearchResult(<< >>, EmptyDict))
          /\ validate_metrics(research_system(ObjectResponse(<< >>)).ret.metrics) = NoError
          /\ (pc = "research" /\ mode = "create") =>
               ENABLED (/\ RetryResearch
                        /\ pc' = "codegen"
                        /\ research' = ResearchResult(<< >>, EmptyDict)))
    /\ [][(pc = "research" /\ pc' = "codegen" /\ research'.metrics = << >>) =>
            /\ failures' = << >>
            /\ llm_calls'["research"] = llm_calls["research"] + 1
            /\ attempt' = attempt
            /\ sleeps' = sleeps]_vars

\* C37 witness: a fresh run is at Code Generation with no metric after one
\* research call
C37_Witness ==
    /\ pc = "codegen"
    /\ mode = "create"
    /\ research = ResearchResult(<< >>, EmptyDict)
    /\ llm_calls["research"] = 1
    /\ sleeps = 0
    /\ attempt = 0

\* C38 (as claimed): while one task of the fan-out waits out a retry delay,
\* the other task, if it has not finished, is able to take its next step
\* (start, or have its own LLM call complete).
C38_SleepLetsOtherTaskRun ==
    \A t, u \in Tasks :
        (t # u /\ fan[t].at = "sleeping" /\ fan[u].at \in {"ready", "awaiting"}) =>
            ENABLED FanStep(u)

\* C39: run_tests never raises. A zero exit gives passed = true with the
\* combined output; a non-zero exit gives passed = false with the combined
\* output; a timeout or a failure to launch gives passed = false with the
\* exception text. The run never ends with an error from the test step.
C39_RunTestsNeverRaises ==
    /\ raised_in # "test"
    /\ pc = "test" => test_runs = 0
    /\ test_runs > 0 =>
         /\ test_result \in {[passed |-> TRUE, output |-> "stdout+stderr"],
                             [passed |-> FALSE, output |-> "stdout+stderr"],
                             [passed |-> FALSE, output |-> "str(e)"]}
         /\ pc = "diagnose" => ~test_result.passed
    /\ \A o \in TestOutcomes :
         /\ run_tests(o).passed <=> o = "exit0"
         /\ o # "exit0" => run_tests(o) \in {[passed |-> FALSE, output |-> "stdout+stderr"],
                                             [passed |-> FALSE, output |-> "str(e)"]}

\* the test command could not be run, and the run goes on to the diagnosis
C39_Witness ==
    /\ pc = "diagnose"
    /\ test_runs = 1
    /\ test_result = [passed |-> FALSE, output |-> "str(e)"]

\* the path the routing rule gives a block
RoutedTo(b) ==
    IF b.path # "" THEN b.path
    ELSE IF Contains(b.body, "main") THEN "cmd/exporter/main.go"
    ELSE IF Contains(b.body, "test") THEN "exporter_test.go"
    ELSE "exporter.go"

\* C40: the parsed mapping holds each fenced block under the path of the
\* routing rule: the annotated path when there is an annotation, whatever
\* markers the body has; otherwise the entry-point path when the body has
\* the entry-point marker (also when it has the test marker too), otherwise
\* exporter_test.go when it has the test marker, otherwise exporter.go.
\* (Of two blocks routed to one path the later one is the one kept.)
C40_RoutingByMarkerPriority ==
    ppc = "parsed" =>
        /\ DictKeys(parse_files) = {RoutedTo(parse_blocks[k]) : k \in DOMAIN parse_blocks}
        /\ \A k \in DOMAIN parse_blocks :
             (\A n \in (k + 1)..Len(parse_blocks) :
                  RoutedTo(parse_blocks[n]) # RoutedTo(parse_blocks[k]))
             => DictGet(parse_files, RoutedTo(parse_blocks[k])) = parse_blocks[k].body

\* a response whose first block has both markers and no annotation and was
\* stored as the entry point, and whose second block has the entry-point
\* marker and was stored under its annotation
C40_Witness ==
    /\ ppc = "parsed"
    /\ Len(parse_blocks) = 2
    /\ parse_blocks[1].path = ""
    /\ parse_blocks[1].body = <<"test", "\n", "main">>
    /\ parse_blocks[2].path = "collectors/a.go"
    /\ parse_blocks[2].body = <<"main">>
    /\ DictGet(parse_files, MainPath) = <<"test", "\n", "main">>
    /\ DictGet(parse_files, "collectors/a.go") = <<"main">>
    /\ DictKeys(parse_files) = {MainPath, "collectors/a.go"}

====
